---- MODULE Spec2Model ----
(***************************************************************************)
(* Model of openfisca_tunisia.scenarios.Scenario: validation of the        *)
(* attributes of a scenario (json_or_python_to_attributes), validation of  *)
(* its test case in three stages (json_or_python_to_test_case), the lookup  *)
(* of the legislation, the construction of the linkage and variable arrays *)
(* and their expansion along the axes (new_simulation), suggest, to_json   *)
(* and json_to_instance.                                                   *)
(*                                                                         *)
(* Conventions.  Python's None is the integer None.  An OrderedDict is a   *)
(* sequence in insertion order: individus is a sequence of records that    *)
(* carry their key in the field id; foyers_fiscaux and menages are         *)
(* sequences whose keys are the 0-based positions (the keys the list form  *)
(* of the input gives).  A birth date is its year.  A numpy array of       *)
(* length n is a function on 0..n-1.  An error is a set of records         *)
(* [path, msg]: the path of keys to the leaf of the nested error           *)
(* dictionary and the message stored there.  A float32 value is the exact  *)
(* fraction <<n, d>> in lowest terms; rounding is not modelled.            *)
(***************************************************************************)
EXTENDS Integers, Sequences, FiniteSets, TLC

VARIABLES
    input,       \* the value handed to json_or_python_to_attributes
    pc,          \* "new", "valid" (returned self, None), "rejected", "raised"
    result,      \* what the last validation returned: [step, tc_stage, errors]
    test_case,   \* self.test_case
    axes,        \* self.axes
    year,        \* self.year
    compact_legislation,  \* self.compact_legislation: <<>> (None) or <<c>>
    legislation_url,      \* self.legislation_url: <<>> (None) or <<url>>
    simulation,  \* the Simulation the last new_simulation returned
    raised,      \* the exception the last operation raised, or "none"
    returned     \* what the last suggest, to_json or json_to_instance returned

vars ==
    <<input, pc, result, test_case, axes, year, compact_legislation,
      legislation_url, simulation, raised, returned>>

None == -1

\* Bounds of the inputs.
MaxInd == 3
MaxFoy == 2
MaxMen == 2
MaxAxes == 2

\* Program constants.
MinYear == 1900
MinDeclarantAge == 18
MaxDependentAge == 25
MonthsPerYear == 12
MaxDeclarants == 2

Max(a, b) == IF a >= b THEN a ELSE b

Range(s) == {s[k] : k \in 1..Len(s)}

\* The column registry (tax_benefit_system.column_by_name), an external
\* collaborator: name -> entity symbol, numeric dtype or not.
ColumnNames == {"sali", "loyer", "fon_reel_fisc", "birth", "age", "agem", "inv"}

column_entity(name) ==
    CASE name = "loyer" -> "men"
      [] name = "fon_reel_fisc" -> "foy"
      [] OTHER -> "ind"

column_dtype(name) ==
    CASE name \in {"sali", "fon_reel_fisc", "age", "agem"} -> "int32"
      [] name = "loyer" -> "float32"
      [] name = "birth" -> "date"
      [] OTHER -> "bool"

column_default(name) == IF name = "birth" THEN 1970 ELSE 0

column_is_numeric(name) == column_dtype(name) \in {"float32", "int16", "int32"}

key_plural(entity) ==
    CASE entity = "ind" -> "individus"
      [] entity = "foy" -> "foyers_fiscaux"
      [] entity = "men" -> "menages"

\* dict.get(name)
Get(r, name) == IF name \in DOMAIN r THEN r[name] ELSE None

Err(p, m) == [path |-> p, msg |-> m]

Paths(errors) == {e.path : e \in errors}

NoTestCase == [none |-> TRUE]

NoSimulation == [none |-> TRUE]

\* The class Scenario gives no legislation_url to its instances.
NoAttribute == <<"no attribute">>

NoResult ==
    [step |-> "none", tc_stage |-> 0, errors |-> {}, test_case |-> NoTestCase,
     lookup |-> <<>>, raises |-> "none", env |-> [cache |-> "absent", fetch |-> "none"]]

(***************************************************************************)
(* json_or_python_to_test_case                                             *)
(***************************************************************************)

IndividusIds(tc) == [k \in 1..Len(tc.individus) |-> tc.individus[k].id]

individu_by_id(tc, id) == CHOOSE r \in Range(tc.individus) : r.id = id

RECURSIVE Concat(_)
Concat(ss) == IF ss = <<>> THEN <<>> ELSE Head(ss) \o Concat(Tail(ss))

\* The key of a list item: its id, or its index when it has none.
ItemKey(values, i) == IF values[i].id = None THEN i - 1 ELSE values[i].id

\* OrderedDict.__setitem__: a key the map has keeps its place and takes the
\* new value.
Put(map, key, value) ==
    LET item == [value EXCEPT !.id = key]
    IN  IF \E k \in 1..Len(map) : map[k].id = key
        THEN [k \in 1..Len(map) |-> IF map[k].id = key THEN item ELSE map[k]]
        ELSE Append(map, item)

\* The list form of a group made an OrderedDict, the items 1..n of the list
\* so far: the key of an item is value.pop('id', index).
RECURSIVE ListToMap(_, _)
ListToMap(values, n) ==
    IF n = 0 THEN <<>>
    ELSE Put(ListToMap(values, n - 1), ItemKey(values, n), values[n])

\* The date an ISO 8601 string denotes, and a date itself: a date is its
\* year, the string of the first of January of a year is year0101.
json_to_python(name, v) ==
    IF name = "birth" /\ v # None /\ v > 9999 THEN v \div 10000 ELSE v

\* column.transform_value_to_json: the ISO 8601 string of a date.
transform_value_to_json(name, v) ==
    IF name = "birth" /\ v # None THEN v * 10000 + 101 ELSE v

\* The columns of the entity that the record gives a value.
GivenColumns(r, entity) ==
    {c \in DOMAIN r \cap ColumnNames : column_entity(c) = entity /\ r[c] # None}

AgeFields == {"birth", "age", "agem", "inv"}

\* The struct on an individual: every column goes through json_to_python and
\* the ones without value are dropped (the four fields the third step reads
\* are kept, None standing for a dropped one).
NormalizeIndividu(r) ==
    [k \in {"id"} \cup AgeFields \cup GivenColumns(r, "ind") |->
        IF k = "id" THEN r.id ELSE json_to_python(k, Get(r, k))]

\* The struct on a fiscal unit: the two lists default to the empty list.
NormalizeFoyerFiscal(r) ==
    [k \in {"declarants", "personnes_a_charge"} \cup GivenColumns(r, "foy") |->
        IF k \in {"declarants", "personnes_a_charge"}
        THEN (IF k \in DOMAIN r THEN r[k] ELSE <<>>)
        ELSE json_to_python(k, r[k])]

\* The struct on a household: the two lists default to the empty list,
\* personne_de_reference and conjoint to None.
NormalizeMenage(r) ==
    [k \in {"autres", "enfants", "conjoint", "personne_de_reference"}
           \cup GivenColumns(r, "men") |->
        IF k \in {"autres", "enfants"}
        THEN (IF k \in DOMAIN r THEN r[k] ELSE <<>>)
        ELSE json_to_python(k, Get(r, k))]

\* First validation step, the data: the three groups as maps of normalized
\* records.
Stage1(tc) ==
    LET individus == ListToMap(tc.individus, Len(tc.individus))
    IN  [individus |-> [k \in 1..Len(individus) |-> NormalizeIndividu(individus[k])],
         foyers_fiscaux |-> [u \in 1..Len(tc.foyers_fiscaux) |->
                                NormalizeFoyerFiscal(tc.foyers_fiscaux[u])],
         menages |-> [m \in 1..Len(tc.menages) |-> NormalizeMenage(tc.menages[m])]]

\* First validation step, the errors: individus goes through empty_to_none
\* and not_none.
Stage1Errors(tc) ==
    IF Len(tc.individus) = 0
    THEN {Err(<<"individus">>, "Missing value")}
    ELSE {}

\* conv.test_in_pop(values) applied to value: None passes; a value of the
\* list is removed from it; any other value is an error.
test_in_pop(pool, value) ==
    IF value = None THEN [pool |-> pool, error |-> FALSE]
    ELSE IF value \in Range(pool)
    THEN [pool |-> SelectSeq(pool, LAMBDA x : x # value), error |-> FALSE]
    ELSE [pool |-> pool, error |-> TRUE]

\* The references of a list field, in list order, each with its error path.
ItemRefs(prefix, ids) ==
    [k \in 1..Len(ids) |-> [path |-> Append(prefix, k - 1), id |-> ids[k]]]

\* FoyerFiscalRefs with personnes_a_charge left out of the claims.
FoyerFiscalRefsDropPac(u, foyer_fiscal) ==
    ItemRefs(<<"foyers_fiscaux", u, "declarants">>, foyer_fiscal.declarants)

\* The references test_in_pop(foyers_fiscaux_individus_id) is applied to in
\* one fiscal unit.
FoyerFiscalRefs(u, foyer_fiscal) ==
    ItemRefs(<<"foyers_fiscaux", u, "declarants">>, foyer_fiscal.declarants)
    \o ItemRefs(<<"foyers_fiscaux", u, "personnes_a_charge">>,
                foyer_fiscal.personnes_a_charge)

FoyersFiscauxRefs(tc) ==
    Concat([u \in 1..Len(tc.foyers_fiscaux) |->
                FoyerFiscalRefs(u - 1, tc.foyers_fiscaux[u])])

\* The references test_in_pop(menages_individus_id) is applied to in one
\* household, in the order the source lists the fields.
MenageRefs(m, menage) ==
    ItemRefs(<<"menages", m, "autres">>, menage.autres)
    \o <<[path |-> <<"menages", m, "conjoint">>, id |-> menage.conjoint]>>
    \o ItemRefs(<<"menages", m, "enfants">>, menage.enfants)
    \o <<[path |-> <<"menages", m, "personne_de_reference">>,
          id |-> menage.personne_de_reference]>>

MenagesRefs(tc) ==
    Concat([m \in 1..Len(tc.menages) |-> MenageRefs(m - 1, tc.menages[m])])

\* The struct of the second step: every reference goes through test_in_pop
\* against the one list of its side; the errors are collected.
RECURSIVE ClaimAll(_, _, _)
ClaimAll(refs, pool, errors) ==
    IF refs = <<>> THEN [pool |-> pool, errors |-> errors]
    ELSE LET r == Head(refs)
             t == test_in_pop(pool, r.id)
         IN  ClaimAll(Tail(refs), t.pool,
                 IF t.error
                 THEN errors \cup {Err(r.path, "Value must belong to the pool")}
                 ELSE errors)

MissingFromMsg(in_foyers, in_menages) ==
    CASE in_foyers /\ in_menages ->
             "Individual is missing from foyers_fiscaux & menages"
      [] in_foyers /\ ~in_menages -> "Individual is missing from foyers_fiscaux"
      [] ~in_foyers /\ in_menages -> "Individual is missing from menages"
      [] OTHER -> "Individual is missing from "

\* Second validation step, the struct: both lists start as the keys of
\* individus and are consumed by the references of their own side.
Stage2Claims(tc) ==
    [foyers_fiscaux |-> ClaimAll(FoyersFiscauxRefs(tc), IndividusIds(tc), {}),
     menages |-> ClaimAll(MenagesRefs(tc), IndividusIds(tc), {})]

\* Stage2Errors with the union of the two lists forgotten: only the list of
\* the fiscal units is looked at.
Stage2ErrorsFoyersOnly(tc) ==
    LET c == Stage2Claims(tc)
        foyers_fiscaux_individus_id == Range(c.foyers_fiscaux.pool)
    IN  c.foyers_fiscaux.errors \cup c.menages.errors
        \cup {Err(<<"individus", id>>, MissingFromMsg(TRUE, FALSE))
              : id \in foyers_fiscaux_individus_id}

\* Stage2Errors returning the errors of the struct alone when it has some.
Stage2ErrorsStructFirst(tc) ==
    LET c == Stage2Claims(tc)
        remaining_individus_id ==
            Range(c.foyers_fiscaux.pool) \cup Range(c.menages.pool)
    IN  IF c.foyers_fiscaux.errors \cup c.menages.errors # {}
        THEN c.foyers_fiscaux.errors \cup c.menages.errors
        ELSE {Err(<<"individus", id>>,
                  MissingFromMsg(id \in Range(c.foyers_fiscaux.pool),
                                 id \in Range(c.menages.pool)))
              : id \in remaining_individus_id}

\* Second validation step, the result: the errors of the struct and one error
\* for every individual id left in either list.
Stage2Errors(tc) ==
    LET c == Stage2Claims(tc)
        foyers_fiscaux_individus_id == Range(c.foyers_fiscaux.pool)
        menages_individus_id == Range(c.menages.pool)
        remaining_individus_id ==
            foyers_fiscaux_individus_id \cup menages_individus_id
    IN  c.foyers_fiscaux.errors \cup c.menages.errors
        \cup {Err(<<"individus", id>>,
                  MissingFromMsg(id \in foyers_fiscaux_individus_id,
                                 id \in menages_individus_id))
              : id \in remaining_individus_id}

AgeMsg == "Un declarant d'un foyer fiscal doit etre age d'au moins 18 ans"

PacMsg ==
    "Une personne a charge d'un foyer fiscal doit avoir moins de 25 ans ou etre invalide"

BirthMsg == "L'individu doit etre ne au plus tard l'annee de la simulation"

\* DeclarantTests with one passing test being enough.
DeclarantTestsAny(individu, y) ==
    \/ (individu.birth = None /\ individu.age = None /\ individu.agem = None)
    \/ (individu.birth # None /\ y - individu.birth >= MinDeclarantAge)
    \/ (individu.age # None /\ individu.age >= MinDeclarantAge)
    \/ (individu.agem # None /\ individu.agem >= MinDeclarantAge * MonthsPerYear)

\* DeclarantTests with the limit of the test on birth off by one.
DeclarantTestsOffByOne(individu, y) ==
    /\ (individu.birth = None \/ y - individu.birth > MinDeclarantAge)
    /\ (individu.age = None \/ individu.age >= MinDeclarantAge)
    /\ (individu.agem = None \/ individu.agem >= MinDeclarantAge * MonthsPerYear)

\* The three tests piped on every declarant.
DeclarantTests(individu, y) ==
    /\ (individu.birth = None \/ y - individu.birth >= MinDeclarantAge)
    /\ (individu.age = None \/ individu.age >= MinDeclarantAge)
    /\ (individu.agem = None \/ individu.agem >= MinDeclarantAge * MonthsPerYear)

\* individu.get('inv', False): absent and False are both false.
IsInv(individu) == individu.inv = 1

\* PersonneAChargeTests with the inv flag looked at by the first test only.
PersonneAChargeTestsInvOnce(individu, y) ==
    /\ (IsInv(individu) \/ individu.birth = None
            \/ y - individu.birth <= MaxDependentAge)
    /\ (individu.age = None \/ individu.age <= MaxDependentAge)
    /\ (individu.agem = None \/ individu.agem <= MaxDependentAge * MonthsPerYear)

\* The three tests piped on every personne a charge.
PersonneAChargeTests(individu, y) ==
    /\ (IsInv(individu) \/ individu.birth = None
            \/ y - individu.birth <= MaxDependentAge)
    /\ (IsInv(individu) \/ individu.age = None
            \/ individu.age <= MaxDependentAge)
    /\ (IsInv(individu) \/ individu.agem = None
            \/ individu.agem <= MaxDependentAge * MonthsPerYear)

\* DeclarantsErrors without the test on the number of declarants.
DeclarantsErrorsNoCount(tc, y, u, declarants) ==
    IF Len(declarants) = 0
    THEN {Err(<<"foyers_fiscaux", u, "declarants">>, "Missing value")}
    ELSE {Err(<<"foyers_fiscaux", u, "declarants", k - 1>>, AgeMsg)
          : k \in {j \in 1..Len(declarants) :
                      ~DeclarantTests(individu_by_id(tc, declarants[j]), y)}}

\* The pipe on declarants: empty_to_none, not_none, at most 2, then the
\* tests of every item; the first converter that fails ends the pipe.
DeclarantsErrors(tc, y, u, declarants) ==
    IF Len(declarants) = 0
    THEN {Err(<<"foyers_fiscaux", u, "declarants">>, "Missing value")}
    ELSE IF ~(Len(declarants) <= MaxDeclarants)
    THEN {Err(<<"foyers_fiscaux", u, "declarants">>,
              "A foyer_fiscal must have at most 2 declarants")}
    ELSE {Err(<<"foyers_fiscaux", u, "declarants", k - 1>>, AgeMsg)
          : k \in {j \in 1..Len(declarants) :
                      ~DeclarantTests(individu_by_id(tc, declarants[j]), y)}}

PersonnesAChargeErrors(tc, y, u, personnes_a_charge) ==
    {Err(<<"foyers_fiscaux", u, "personnes_a_charge", k - 1>>, PacMsg)
     : k \in {j \in 1..Len(personnes_a_charge) :
                 ~PersonneAChargeTests(
                      individu_by_id(tc, personnes_a_charge[j]), y)}}

\* foyers_fiscaux of the third step: the uniform_mapping, then empty_to_none
\* and not_none on the mapping.
FoyersFiscauxErrors(tc, y) ==
    LET inner ==
            UNION {DeclarantsErrors(tc, y, u - 1, tc.foyers_fiscaux[u].declarants)
                   \cup PersonnesAChargeErrors(tc, y, u - 1,
                            tc.foyers_fiscaux[u].personnes_a_charge)
                   : u \in 1..Len(tc.foyers_fiscaux)}
    IN  IF inner # {} THEN inner
        ELSE IF Len(tc.foyers_fiscaux) = 0
        THEN {Err(<<"foyers_fiscaux">>, "Missing value")}
        ELSE {}

\* IndividusErrors with the birth year compared to the year after.
IndividusErrorsOffByOne(tc, y) ==
    {Err(<<"individus", tc.individus[k].id, "birth">>, BirthMsg)
     : k \in {j \in 1..Len(tc.individus) :
                 /\ tc.individus[j].birth # None
                 /\ ~(y - tc.individus[j].birth >= 0 - 1)}}

\* individus of the third step: the test on birth, skipped for None.
IndividusErrors(tc, y) ==
    {Err(<<"individus", tc.individus[k].id, "birth">>, BirthMsg)
     : k \in {j \in 1..Len(tc.individus) :
                 /\ tc.individus[j].birth # None
                 /\ ~(y - tc.individus[j].birth >= 0)}}

\* menages of the third step.
MenagesErrors(tc) ==
    LET inner ==
            {Err(<<"menages", m - 1, "personne_de_reference">>, "Missing value")
             : m \in {j \in 1..Len(tc.menages) :
                         tc.menages[j].personne_de_reference = None}}
    IN  IF inner # {} THEN inner
        ELSE IF Len(tc.menages) = 0
        THEN {Err(<<"menages">>, "Missing value")}
        ELSE {}

\* Third validation step: one struct, the errors of its three fields together.
Stage3Errors(tc, y) ==
    FoyersFiscauxErrors(tc, y) \cup IndividusErrors(tc, y) \cup MenagesErrors(tc)

\* json_or_python_to_test_case: a step is evaluated only when the one before
\* returned no error.
json_or_python_to_test_case(value, y) ==
    LET tc == Stage1(value)
    IN  IF Stage1Errors(tc) # {}
        THEN [tc_stage |-> 1, errors |-> Stage1Errors(tc), test_case |-> tc]
        ELSE IF Stage2Errors(tc) # {}
        THEN [tc_stage |-> 2, errors |-> Stage2Errors(tc), test_case |-> tc]
        ELSE [tc_stage |-> 3, errors |-> Stage3Errors(tc, y), test_case |-> tc]

(***************************************************************************)
(* json_or_python_to_attributes                                            *)
(***************************************************************************)

\* First validation step: the struct on axes and year.  An empty axes list
\* becomes None, written <<>>.
AxisShapeErrors(i, axis) ==
    {Err(<<"axes", i, "count">>, "Value must be greater than or equal to 1")
     : x \in {y \in {axis.count} : ~(y >= 1)}}
    \cup {Err(<<"axes", i, "index">>, "Value must be greater than or equal to 0")
          : x \in {y \in {axis.index} : ~(y >= 0)}}
    \cup {Err(<<"axes", i, "name">>, "Invalid type for axe: integer or float expected")
          : x \in {y \in {axis.name} :
                      ~(y \in ColumnNames /\ column_is_numeric(y))}}

AttributesShapeErrors(inp) ==
    UNION {AxisShapeErrors(i - 1, inp.axes[i]) : i \in 1..Len(inp.axes)}
    \cup {Err(<<"year">>, "Value must be greater than or equal to 1900")
          : x \in {y \in {inp.year} : ~(y >= MinYear)}}

\* len(data['test_case'][entity_class.key_plural]) for the axis variable.
AxisEntityCount(tc, axis) ==
    Len(tc[key_plural(column_entity(axis.name))])

\* Third validation step: the cross-field checks of every axis.
AxisErrors(tc, i, axis) ==
    {Err(<<"axes", i, "max">>, "Max value must be greater than min value")
     : x \in {y \in {axis.min} : y >= axis.max}}
    \cup {Err(<<"axes", i, "index">>, "Index must be lower than the entity count")
          : x \in {y \in {axis.index} : y >= AxisEntityCount(tc, axis)}}

\* AxesErrors stopping at the first axis that has an error.
AxesErrorsFirstOnly(inp) ==
    LET bad == {i \in 1..Len(inp.axes) :
                   AxisErrors(inp.test_case, i - 1, inp.axes[i]) # {}}
    IN  UNION {AxisErrors(inp.test_case, i - 1, inp.axes[i])
               : i \in {j \in bad : \A k \in bad : j <= k}}

AxesErrors(inp) ==
    UNION {AxisErrors(inp.test_case, i - 1, inp.axes[i]) : i \in 1..Len(inp.axes)}

\* The legislation_url of the input, when it has one.
HasUrl(inp) == "legislation_url" \in DOMAIN inp

\* conv.make_input_to_url(error_if_fragment = True, full = True,
\* schemes = ('http', 'https')) on the URLs of the inputs.
UrlErrors(inp) ==
    {Err(<<"legislation_url">>, "Invalid URL")
     : x \in {u \in {Get(inp, "legislation_url")} :
                 HasUrl(inp) /\ u \notin {"http://host/legislation",
                                          "https://host/legislation"}}}

\* What the file of the cache holds: no fresh file (or no cache_dir), a
\* legislation, text json.load raises ValueError on, JSON that is not an
\* object.
CacheStates == {"absent", "legislation", "not_json", "not_object"}

\* What the request does: urlopen raises HTTPError or URLError, the read of
\* the response raises, the body is not JSON, is JSON that
\* validate_any_legislation_json refuses, is a legislation.
FetchOutcomes ==
    {"HTTPError", "URLError", "read_raises", "not_json", "not_legislation",
     "legislation"}

NoLookup == [cache |-> "absent", fetch |-> "none"]

\* The environments a validation of the input can meet.
Environments(inp) ==
    IF HasUrl(inp) THEN [cache : CacheStates, fetch : FetchOutcomes] ELSE {NoLookup}

\* The lookup of the legislation: what was read (trace), the error returned
\* under legislation_url and the exception raised, if any.
LegislationLookup(env) ==
    IF env.cache = "legislation"
    THEN [trace |-> <<"cache">>, errors |-> {}, raises |-> "none"]
    ELSE IF env.cache = "not_object"
    THEN [trace |-> <<"cache">>, errors |-> {}, raises |-> "AttributeError"]
    ELSE LET trace == IF env.cache = "not_json" THEN <<"cache", "fetch">>
                      ELSE <<"fetch">>
         IN  CASE env.fetch = "HTTPError" ->
                    [trace |-> trace, raises |-> "none",
                     errors |-> {Err(<<"legislation_url">>,
                                     "HTTP Error while retrieving legislation JSON")}]
               [] env.fetch = "URLError" ->
                    [trace |-> trace, raises |-> "none",
                     errors |-> {Err(<<"legislation_url">>,
                                     "Error while retrieving legislation JSON")}]
               [] env.fetch = "read_raises" ->
                    [trace |-> trace, errors |-> {}, raises |-> "socket.error"]
               [] env.fetch = "not_json" ->
                    [trace |-> trace, raises |-> "none",
                     errors |-> {Err(<<"legislation_url">>, "Invalid JSON")}]
               [] env.fetch = "not_legislation" ->
                    [trace |-> trace, raises |-> "none",
                     errors |-> {Err(<<"legislation_url">>, "Invalid legislation")}]
               [] OTHER -> [trace |-> trace, errors |-> {}, raises |-> "none"]

\* What a call of json_or_python_to_attributes did: the step it ended at, the
\* data and the errors it returned or the exception it raised, and what the
\* lookup of the legislation read in which environment.
Returned(step, t, errors, lookup, env) ==
    [step |-> step, tc_stage |-> t.tc_stage, errors |-> errors,
     test_case |-> t.test_case, lookup |-> lookup.trace, raises |-> lookup.raises,
     env |-> env]

NotLookedUp == [trace |-> <<>>, errors |-> {}, raises |-> "none"]

\* json_or_python_to_attributes up to the assignment of the attributes: the
\* step that returned or raised, the data and the errors.
json_or_python_to_attributes(inp, env) ==
    IF AttributesShapeErrors(inp) \cup UrlErrors(inp) # {}
    THEN Returned("shape", [tc_stage |-> 0, test_case |-> inp.test_case],
                  AttributesShapeErrors(inp) \cup UrlErrors(inp), NotLookedUp, NoLookup)
    ELSE LET t == json_or_python_to_test_case(inp.test_case, inp.year)
             data == [inp EXCEPT !.test_case = t.test_case]
             l == LegislationLookup(env)
         IN  IF t.errors # {} THEN Returned("test_case", t, t.errors, NotLookedUp, NoLookup)
             ELSE IF AxesErrors(data) # {}
             THEN Returned("axes", t, AxesErrors(data), NotLookedUp, NoLookup)
             ELSE IF ~HasUrl(inp) THEN Returned("ok", t, {}, NotLookedUp, NoLookup)
             ELSE IF l.raises # "none" \/ l.errors # {}
             THEN Returned("legislation", t, l.errors, l, env)
             ELSE Returned("ok", t, {}, l, env)

\* The call assigns the attributes after the lookup of the legislation.
AssignsBeforeLookup(r) == r.raises = "none" /\ r.step \in {"ok", "legislation"}

\* The call reaches the assignment of the attributes.
Assigns(r) == r.raises = "none" /\ r.step = "ok"

\* compact_legislation: None without legislation_url, else the legislation
\* of the URL dated at the first of January of the year and compacted.
CompactLegislation(inp) ==
    IF HasUrl(inp)
    THEN <<[legislation_url |-> inp.legislation_url, datesim |-> inp.year]>>
    ELSE <<>>

\* A call of json_or_python_to_attributes on the value inp: the attributes
\* are assigned on the path that returns (self, None).
Call(inp) ==
    /\ \E env \in Environments(inp) :
          result' = json_or_python_to_attributes(inp, env)
    /\ raised' = result'.raises
    /\ pc' = IF result'.raises # "none" THEN "raised"
             ELSE IF result'.errors = {} THEN "valid" ELSE "rejected"
    /\ IF Assigns(result')
       THEN /\ axes' = inp.axes
            /\ compact_legislation' = CompactLegislation(inp)
            /\ legislation_url' = IF HasUrl(inp) THEN <<inp.legislation_url>>
                                  ELSE <<>>
            /\ test_case' = result'.test_case
            /\ year' = inp.year
       ELSE UNCHANGED <<axes, compact_legislation, legislation_url, test_case,
                        year>>

\* The call of json_or_python_to_attributes on a fresh Scenario.
Validate ==
    /\ pc = "new"
    /\ Call(input)
    /\ UNCHANGED <<input, simulation, returned>>

(***************************************************************************)
(* new_simulation                                                          *)
(***************************************************************************)

\* What np.empty may hold in a slot that is never written.
Junk == {0, 1, 5}

FoyerFiscalKeys == {"declarants", "personnes_a_charge"}

MenageKeys == {"personne_de_reference", "conjoint", "enfants", "autres"}

\* dict.pop of every key of ks.
Pop(r, ks) == [k \in DOMAIN r \ ks |-> r[k]]

RECURSIVE Product(_)
Product(counts) == IF counts = <<>> THEN 1 ELSE Head(counts) * Product(Tail(counts))

\* StepsCount with only the last axis counted.
StepsCountLastAxis(ax) == IF ax = <<>> THEN 1 ELSE ax[Len(ax)].count

StepsCount(ax) == Product([i \in 1..Len(ax) |-> ax[i].count])

individu_index_by_id(tc, id) ==
    (CHOOSE k \in 1..Len(tc.individus) : tc.individus[k].id = id) - 1

\* The writes of one fiscal unit into idfoy and quifoy, in program order:
\* for every step, the first declarant, then every personne a charge.
FoyerFiscalWrites(tc, steps_count, foyer_fiscal_index, foyer_fiscal) ==
    LET individus_step_size == Len(tc.individus)
        foyers_fiscaux_step_size == Len(tc.foyers_fiscaux)
        declarants_id == foyer_fiscal.declarants
        personnes_a_charge_id == foyer_fiscal.personnes_a_charge
        StepWrites(step_index) ==
            <<[slot |-> step_index * individus_step_size
                          + individu_index_by_id(tc, declarants_id[1]),
               id |-> step_index * foyers_fiscaux_step_size + foyer_fiscal_index,
               qui |-> 0]>>
            \o [k \in 1..Len(personnes_a_charge_id) |->
                  [slot |-> step_index * individus_step_size
                              + individu_index_by_id(tc, personnes_a_charge_id[k]),
                   id |-> step_index * foyers_fiscaux_step_size + foyer_fiscal_index,
                   qui |-> 2 + (k - 1)]]
    IN  Concat([s \in 1..steps_count |-> StepWrites(s - 1)])

\* The writes of one household into idmen and quimen, in program order: for
\* every step, the personne de reference, then enfants chained with autres.
MenageWrites(tc, steps_count, menage_index, menage) ==
    LET individus_step_size == Len(tc.individus)
        menages_step_size == Len(tc.menages)
        chained == menage.enfants \o menage.autres
        StepWrites(step_index) ==
            <<[slot |-> step_index * individus_step_size
                          + individu_index_by_id(tc, menage.personne_de_reference),
               id |-> step_index * menages_step_size + menage_index,
               qui |-> 0]>>
            \o [k \in 1..Len(chained) |->
                  [slot |-> step_index * individus_step_size
                              + individu_index_by_id(tc, chained[k]),
                   id |-> step_index * menages_step_size + menage_index,
                   qui |-> 2 + (k - 1)]]
    IN  Concat([s \in 1..steps_count |-> StepWrites(s - 1)])

FoyersFiscauxWrites(tc, steps_count) ==
    Concat([u \in 1..Len(tc.foyers_fiscaux) |->
               FoyerFiscalWrites(tc, steps_count, u - 1, tc.foyers_fiscaux[u])])

MenagesWrites(tc, steps_count) ==
    Concat([m \in 1..Len(tc.menages) |->
               MenageWrites(tc, steps_count, m - 1, tc.menages[m])])

WrittenSlots(writes) == {writes[k].slot : k \in 1..Len(writes)}

\* An array after the writes, a later write to a slot replacing an earlier one.
RECURSIVE ApplyWrites(_, _, _)
ApplyWrites(array, writes, field) ==
    IF writes = <<>> THEN array
    ELSE ApplyWrites([array EXCEPT ![Head(writes).slot] = Head(writes)[field]],
                     Tail(writes), field)

\* np.empty(n): the slots that will be written hold anything, the others
\* hold what junk gives.
Empty(n, junk) == [i \in 0..(n - 1) |-> IF i \in DOMAIN junk THEN junk[i] ELSE 0]

RECURSIVE MaxOf(_)
MaxOf(ns) == IF ns = <<>> THEN 0 ELSE Max(Head(ns), MaxOf(Tail(ns)))

\* roles_count taken from the last fiscal unit instead of the largest.
FoyersFiscauxRolesCountLast(tc) ==
    2 + Len(tc.foyers_fiscaux[Len(tc.foyers_fiscaux)].personnes_a_charge)

FoyersFiscauxRolesCount(tc) ==
    MaxOf([u \in 1..Len(tc.foyers_fiscaux) |->
              2 + Len(tc.foyers_fiscaux[u].personnes_a_charge)])

MenagesRolesCount(tc) ==
    MaxOf([m \in 1..Len(tc.menages) |->
              2 + Len(tc.menages[m].enfants) + Len(tc.menages[m].autres)])

(* Numbers.  The value of a float32 array is an exact rational <<n, d>> in   *)
(* lowest terms with d > 0 (the rounding of the floating-point formats is  *)
(* not modelled); the value of an integer array is an integer.             *)
Abs(a) == IF a >= 0 THEN a ELSE 0 - a

RECURSIVE GCD(_, _)
GCD(a, b) == IF b = 0 THEN a ELSE GCD(b, a % b)

Rat(n, d) == LET g == GCD(Abs(n), d) IN <<n \div g, d \div g>>

\* Trunc rounding down instead.
TruncFloor(q) == q[1] \div q[2]

\* The conversion of a real to an integer dtype: towards zero.
Trunc(q) == IF q[1] >= 0 THEN q[1] \div q[2] ELSE 0 - ((0 - q[1]) \div q[2])

\* The assignment of the real q to a cell of the array of the column.
Cast(name, q) == IF column_dtype(name) = "float32" THEN q ELSE Trunc(q)

\* The conversion of a value of the test case to the dtype of the column.
ToDtype(name, v) == IF column_dtype(name) = "float32" THEN Rat(v, 1) ELSE v

\* linspace with the interval open on the right.
linspaceOpen(min, max, count) ==
    [k \in 1..count |-> Rat(min * count + (k - 1) * (max - min), count)]

\* np.linspace(min, max, count), as a sequence.
linspace(min, max, count) ==
    [k \in 1..count |->
        IF count = 1 THEN Rat(min, 1)
        ELSE Rat(min * (count - 1) + (k - 1) * (max - min), count - 1)]

\* The columns of the entity with a value in one of its records at least.
used_columns_name(records) ==
    {name \in ColumnNames : \E k \in 1..Len(records) : Get(records[k], name) # None}

EntityRecords(tc, name) == tc[key_plural(column_entity(name))]

\* VariableArray with every record repeated steps_count times in a row.
VariableArrayRepeated(records, steps_count, name) ==
    [i \in 0..(steps_count * Len(records) - 1) |->
        LET cell == Get(records[(i \div steps_count) + 1], name)
        IN  ToDtype(name, IF cell # None THEN cell ELSE column_default(name))]

\* The array of a used column: for every step, the cell of every record, the
\* default of the column where the record has none.
VariableArray(records, steps_count, name) ==
    [i \in 0..(steps_count * Len(records) - 1) |->
        LET cell == Get(records[(i % Len(records)) + 1], name)
        IN  ToDtype(name, IF cell # None THEN cell ELSE column_default(name))]

\* The holders whose array the loops over the columns set.
VariableHolders(tc, steps_count) ==
    [name \in {c \in ColumnNames : c \in used_columns_name(EntityRecords(tc, c))} |->
        VariableArray(EntityRecords(tc, name), steps_count, name)]

\* holder.array of the axis variable, allocated and filled with the default
\* of the column when the holder has none.
HolderArray(holders, tc, steps_count, name) ==
    IF name \in DOMAIN holders THEN holders[name]
    ELSE [i \in 0..(steps_count * Len(EntityRecords(tc, name)) - 1) |->
             ToDtype(name, column_default(name))]

\* Scatter to the first instance of every step, whatever the index.
ScatterFromZero(array, index, step_size, values, name) ==
    [i \in DOMAIN array |->
        IF i % step_size = 0 THEN Cast(name, values[(i \div step_size) + 1])
        ELSE array[i]]

\* array[index :: step_size] = values
Scatter(array, index, step_size, values, name) ==
    [i \in DOMAIN array |->
        IF i >= index /\ (i - index) % step_size = 0
        THEN Cast(name, values[((i - index) \div step_size) + 1])
        ELSE array[i]]

SetHolder(holders, name, array) ==
    [c \in DOMAIN holders \cup {name} |-> IF c = name THEN array ELSE holders[c]]

\* np.meshgrid(*axes_linspaces) then mesh.reshape(steps_count): the index in
\* the linspace of axis a that the flat position p holds.  The meshes have
\* the shape (count of axis 2, count of axis 1, count of axis 3, ...).
MeshStride(counts, a) ==
    IF a = 2 THEN counts[1] * Product(SubSeq(counts, 3, Len(counts)))
    ELSE IF a = 1 THEN Product(SubSeq(counts, 3, Len(counts)))
    ELSE Product(SubSeq(counts, a + 1, Len(counts)))

\* MeshIndex with every axis read as the one that varies fastest.
MeshIndexFastest(counts, a, p) == p % counts[a]

MeshIndex(counts, a, p) == (p \div MeshStride(counts, a)) % counts[a]

\* The values the axis a scatters, one for every step.
AxisValues(ax, a) ==
    LET axes_linspace == linspace(ax[a].min, ax[a].max, ax[a].count)
        counts == [i \in 1..Len(ax) |-> ax[i].count]
    IN  IF Len(ax) = 1 THEN axes_linspace
        ELSE [p \in 1..StepsCount(ax) |->
                 axes_linspace[MeshIndex(counts, a, p - 1) + 1]]

\* The holders after the axes a..Len(ax) scattered their values.
RECURSIVE ExpandAxes(_, _, _, _)
ExpandAxes(holders, tc, ax, a) ==
    IF a > Len(ax) THEN holders
    ELSE LET name == ax[a].name
             array == HolderArray(holders, tc, StepsCount(ax), name)
         IN  ExpandAxes(
                 SetHolder(holders, name,
                     Scatter(array, ax[a].index, Len(EntityRecords(tc, name)),
                             AxisValues(ax, a), name)),
                 tc, ax, a + 1)

\* The test case new_simulation leaves behind: the relation fields popped
\* from every fiscal unit and every household.
PoppedTestCase(tc) ==
    [tc EXCEPT
        !.foyers_fiscaux = [u \in 1..Len(tc.foyers_fiscaux) |->
                               Pop(tc.foyers_fiscaux[u], FoyerFiscalKeys)],
        !.menages = [m \in 1..Len(tc.menages) |->
                        Pop(tc.menages[m], MenageKeys)]]

\* The first fiscal unit or household a pop raises KeyError on, 0 if none.
FirstWithout(records, keys) ==
    LET bad == {k \in 1..Len(records) : ~(keys \subseteq DOMAIN records[k])}
    IN  IF bad = {} THEN 0 ELSE CHOOSE k \in bad : \A j \in bad : k <= j

BuildSimulation(tc, ax, junk_idfoy, junk_quifoy, junk_idmen, junk_quimen) ==
    LET steps_count == StepsCount(ax)
        n == steps_count * Len(tc.individus)
        fw == FoyersFiscauxWrites(tc, steps_count)
        mw == MenagesWrites(tc, steps_count)
    IN  [steps_count |-> steps_count,
         foyers_fiscaux |-> [step_size |-> Len(tc.foyers_fiscaux),
                             count |-> steps_count * Len(tc.foyers_fiscaux),
                             roles_count |-> FoyersFiscauxRolesCount(tc)],
         individus |-> [step_size |-> Len(tc.individus), count |-> n],
         menages |-> [step_size |-> Len(tc.menages),
                      count |-> steps_count * Len(tc.menages),
                      roles_count |-> MenagesRolesCount(tc)],
         idfoy |-> ApplyWrites(Empty(n, junk_idfoy), fw, "id"),
         quifoy |-> ApplyWrites(Empty(n, junk_quifoy), fw, "qui"),
         idmen |-> ApplyWrites(Empty(n, junk_idmen), mw, "id"),
         quimen |-> ApplyWrites(Empty(n, junk_quimen), mw, "qui"),
         noi |-> [i \in 0..(n - 1) |-> i],
         variables |-> VariableHolders(tc, steps_count),
         holders |-> ExpandAxes(VariableHolders(tc, steps_count), tc, ax, 1)]

\* The pops of one record in program order, up to the first key that is gone.
RECURSIVE PopPrefix(_, _)
PopPrefix(r, keys) ==
    IF keys = <<>> \/ Head(keys) \notin DOMAIN r THEN r
    ELSE PopPrefix(Pop(r, {Head(keys)}), Tail(keys))

\* The test case a raising new_simulation leaves behind: the records before
\* the one that raised are popped, that one as far as its keys went.
PartlyPopped(records, first, keys) ==
    [k \in 1..Len(records) |->
        IF first = 0 \/ k <= first THEN PopPrefix(records[k], keys)
        ELSE records[k]]

\* new_simulation on a validated Scenario.  A pop of a key that is gone
\* raises KeyError and nothing is returned.
NewSimulation ==
    /\ pc = "valid"
    /\ LET f == FirstWithout(test_case.foyers_fiscaux, FoyerFiscalKeys)
           m == FirstWithout(test_case.menages, MenageKeys)
       IN  IF f # 0
           THEN /\ raised' = "KeyError"
                /\ test_case' = [test_case EXCEPT !.foyers_fiscaux =
                       PartlyPopped(test_case.foyers_fiscaux, f,
                                    <<"declarants", "personnes_a_charge">>)]
                /\ UNCHANGED simulation
           ELSE IF m # 0
           THEN /\ raised' = "KeyError"
                /\ test_case' = [test_case EXCEPT
                       !.foyers_fiscaux =
                           PartlyPopped(test_case.foyers_fiscaux, 0,
                                        <<"declarants", "personnes_a_charge">>),
                       !.menages =
                           PartlyPopped(test_case.menages, m,
                                        <<"personne_de_reference", "conjoint",
                                          "enfants", "autres">>)]
                /\ UNCHANGED simulation
           ELSE LET steps_count == StepsCount(axes)
                    all == 0..(steps_count * Len(test_case.individus) - 1)
                    free_foy == all \ WrittenSlots(
                                    FoyersFiscauxWrites(test_case, steps_count))
                    free_men == all \ WrittenSlots(
                                    MenagesWrites(test_case, steps_count))
                IN  /\ \E junk_idfoy \in [free_foy -> Junk],
                          junk_quifoy \in [free_foy -> Junk],
                          junk_idmen \in [free_men -> Junk],
                          junk_quimen \in [free_men -> Junk] :
                           simulation' = BuildSimulation(test_case, axes,
                               junk_idfoy, junk_quifoy, junk_idmen, junk_quimen)
                    /\ test_case' = PoppedTestCase(test_case)
                    /\ raised' = "none"
    /\ UNCHANGED <<input, pc, result, axes, year, compact_legislation,
                   legislation_url, returned>>

(***************************************************************************)
(* suggest, to_json and the validation of what to_json returned            *)
(***************************************************************************)

NothingReturned == [op |-> "none"]

\* any(individu_id in foyer_fiscal['declarants'] for foyer_fiscal in ...):
\* "true" at the first fiscal unit that names the individual, "KeyError" at
\* the first one without declarants, "false" at the end.
RECURSIVE is_declarant(_, _, _)
is_declarant(foyers_fiscaux, u, individu_id) ==
    IF u > Len(foyers_fiscaux) THEN "false"
    ELSE IF "declarants" \notin DOMAIN foyers_fiscaux[u] THEN "KeyError"
    ELSE IF individu_id \in Range(foyers_fiscaux[u].declarants) THEN "true"
    ELSE is_declarant(foyers_fiscaux, u + 1, individu_id)

\* birth_year with the two ages taking each other's place.
birth_yearSwapped(declarant, y) == IF declarant = "true" THEN y - 10 ELSE y - 40

birth_year(declarant, y) == IF declarant = "true" THEN y - 40 ELSE y - 10

\* birth.isoformat() of the first of January of a year.
isoformat(birth) == birth * 10000 + 101

LacksAge(individu) ==
    individu.age = None /\ individu.agem = None /\ individu.birth = None

\* The loop of suggest from the individual k on: the individuals with their
\* birth set, the suggestions, the exception that ended the loop.
RECURSIVE SuggestLoop(_, _, _, _, _)
SuggestLoop(individus, foyers_fiscaux, y, k, suggestions) ==
    IF k > Len(individus)
    THEN [individus |-> individus, suggestions |-> suggestions, raises |-> "none"]
    ELSE IF ~LacksAge(individus[k])
    THEN SuggestLoop(individus, foyers_fiscaux, y, k + 1, suggestions)
    ELSE LET declarant == is_declarant(foyers_fiscaux, 1, individus[k].id)
             birth == birth_year(declarant, y)
         IN  IF declarant = "KeyError"
             THEN [individus |-> individus, suggestions |-> suggestions,
                   raises |-> "KeyError"]
             ELSE SuggestLoop([individus EXCEPT ![k].birth = birth],
                      foyers_fiscaux, y, k + 1,
                      suggestions \cup
                          {[path |-> <<"test_case", "individus", individus[k].id,
                                       "birth">>,
                            value |-> isoformat(birth)]})

\* suggest: the test case before the call is kept with what is returned.
Suggest ==
    /\ pc = "valid"
    /\ LET loop == SuggestLoop(test_case.individus, test_case.foyers_fiscaux,
                               year, 1, {})
       IN  /\ test_case' = [test_case EXCEPT !.individus = loop.individus]
           /\ raised' = loop.raises
           /\ returned' = [op |-> "suggest", of |-> test_case,
                           raises |-> loop.raises,
                           none |-> loop.suggestions = {},
                           value |-> loop.suggestions]
    /\ UNCHANGED <<input, pc, result, axes, year, compact_legislation,
                   legislation_url, simulation>>

\* The JSON of a record: its columns of the entity, through
\* transform_value_to_json, without those whose JSON is None (id stands for
\* the key of the record in its group).
EntityJson(r, entity) ==
    [k \in ({"id"} \cap DOMAIN r)
           \cup {c \in GivenColumns(r, entity) :
                    transform_value_to_json(c, r[c]) # None} |->
        IF k = "id" THEN r.id ELSE transform_value_to_json(k, r[k])]

GroupJson(records, entity) ==
    [k \in 1..Len(records) |-> EntityJson(records[k], entity)]

\* to_json: an absent group or axes is the empty sequence.
to_json(tc, ax, y, inp) ==
    LET self_json ==
            [axes |-> ax,
             test_case |-> [foyers_fiscaux |-> GroupJson(tc.foyers_fiscaux, "foy"),
                            individus |-> GroupJson(tc.individus, "ind"),
                            menages |-> GroupJson(tc.menages, "men")],
             year |-> y]
    IN  IF HasUrl(inp)
        THEN [k \in DOMAIN self_json \cup {"legislation_url"} |->
                 IF k = "legislation_url" THEN inp.legislation_url ELSE self_json[k]]
        ELSE self_json

ToJson ==
    /\ pc = "valid"
    /\ returned' = [op |-> "to_json", of |-> test_case, raises |-> "none",
                    value |-> to_json(test_case, axes, year, input)]
    /\ raised' = "none"
    /\ UNCHANGED <<input, pc, result, test_case, axes, year, compact_legislation,
                   legislation_url, simulation>>

\* json_to_instance on what to_json returned last: the validation of a fresh
\* Scenario, which leaves this one alone.
Revalidate ==
    /\ returned.op = "to_json"
    /\ \E env \in Environments(returned.value) :
          LET r == json_or_python_to_attributes(returned.value, env)
          IN  /\ returned' = [op |-> "json_to_instance", of |-> returned.of,
                              raises |-> r.raises, value |-> r]
              /\ raised' = r.raises
    /\ UNCHANGED <<input, pc, result, test_case, axes, year, compact_legislation,
                   legislation_url, simulation>>

(***************************************************************************)
(* The inputs.                                                             *)
(***************************************************************************)

\* The key of the i-th individual of an input.
IdOf(i) == 10 + i

SimulationYear == 2014

Individu(i, birth, age, agem, inv) ==
    [id |-> IdOf(i), birth |-> birth, age |-> age, agem |-> agem, inv |-> inv]

BlankIndividus(n) == [i \in 1..n |-> Individu(i, None, None, None, None)]

Reverse(s) == [k \in 1..Len(s) |-> s[Len(s) + 1 - k]]

\* The ids of the individuals 1..n that a assigns to slot, in ascending
\* order, then the extra reference if it goes to the slot.
Members(n, a, extra, slot) ==
    LET chosen == SelectSeq([i \in 1..n |-> i], LAMBDA i : a[i] = slot)
    IN  [k \in 1..Len(chosen) |-> IdOf(chosen[k])]
        \o (IF <<extra[1], extra[2]>> = slot THEN <<extra[3]>> ELSE <<>>)

NoExtra == <<0, "none", None>>

UsedUnits(n, a, extra) == {a[i][1] : i \in 1..n} \cup {extra[1]}

LastUnit(n, a, extra) ==
    CHOOSE u \in UsedUnits(n, a, extra) : \A v \in UsedUnits(n, a, extra) : v <= u

FoyOpts ==
    {<<0, "none">>} \cup ((1..MaxFoy) \X {"declarants", "personnes_a_charge"})

FoyExtras(n) ==
    {NoExtra} \cup ((1..MaxFoy) \X {"declarants", "personnes_a_charge"}
                    \X {IdOf(1), IdOf(n + 1)})

GenFoyers(n, a, extra, rev) ==
    [u \in 1..LastUnit(n, a, extra) |->
        LET d == Members(n, a, extra, <<u, "declarants">>)
            p == Members(n, a, extra, <<u, "personnes_a_charge">>)
        IN  [declarants |-> IF rev THEN Reverse(d) ELSE d,
             personnes_a_charge |-> IF rev THEN Reverse(p) ELSE p]]

MenOpts ==
    {<<0, "none">>}
    \cup ((1..MaxMen) \X {"personne_de_reference", "conjoint", "enfants", "autres"})

MenExtras(n) ==
    {NoExtra} \cup ({1} \X {"conjoint", "enfants"} \X {IdOf(1), IdOf(n + 1)})

\* A household has one personne_de_reference and one conjoint at most.
ScalarsOk(n, a, extra) ==
    \A m \in 1..MaxMen : \A role \in {"personne_de_reference", "conjoint"} :
        Len(Members(n, a, extra, <<m, role>>)) <= 1

Scalar(ids) == IF ids = <<>> THEN None ELSE ids[1]

GenMenages(n, a, extra) ==
    [m \in 1..LastUnit(n, a, extra) |->
        [personne_de_reference |->
             Scalar(Members(n, a, extra, <<m, "personne_de_reference">>)),
         conjoint |-> Scalar(Members(n, a, extra, <<m, "conjoint">>)),
         enfants |-> Members(n, a, extra, <<m, "enfants">>),
         autres |-> Members(n, a, extra, <<m, "autres">>)]]

\* One fiscal unit holding the individuals 1..c: the first declares, the
\* others are personnes a charge.
DefaultFoyers(c) ==
    IF c = 0 THEN <<>>
    ELSE <<[declarants |-> <<IdOf(1)>>,
            personnes_a_charge |-> [k \in 1..(c - 1) |-> IdOf(k + 1)]]>>

\* One household holding the individuals 1..c.
DefaultMenages(c) ==
    IF c = 0 THEN <<>>
    ELSE <<[personne_de_reference |-> IdOf(1), conjoint |-> None,
            enfants |-> <<>>,
            autres |-> [k \in 1..(c - 1) |-> IdOf(k + 1)]]>>

Input(individus, foyers_fiscaux, menages, ax, y) ==
    [test_case |-> [individus |-> individus, foyers_fiscaux |-> foyers_fiscaux,
                    menages |-> menages],
     axes |-> ax, year |-> y]

EmptyInput == Input(<<>>, <<>>, <<>>, <<>>, SimulationYear)

\* The values of an age representation around the limits of the third step.
Births == {None, SimulationYear + 1, SimulationYear,
           SimulationYear - (MinDeclarantAge - 1), SimulationYear - MinDeclarantAge,
           SimulationYear - MaxDependentAge, SimulationYear - (MaxDependentAge + 1)}

Ages == {None, MinDeclarantAge - 1, MinDeclarantAge,
         MaxDependentAge, MaxDependentAge + 1}

Agems == {None, MinDeclarantAge * MonthsPerYear - 1, MinDeclarantAge * MonthsPerYear,
          MaxDependentAge * MonthsPerYear, MaxDependentAge * MonthsPerYear + 1}

Invs == {None, 0, 1}

AnyIndividu(i) ==
    {Individu(i, birth, age, agem, inv)
     : birth \in Births, age \in Ages, agem \in Agems, inv \in Invs}

FewIndividus(i) ==
    {Individu(i, None, None, None, None),
     Individu(i, SimulationYear + 1, None, None, None),
     Individu(i, None, MinDeclarantAge - 1, None, None),
     Individu(i, None, MaxDependentAge + 1, None, 0)}

\* The test case of the inputs that vary the ages: individual 1 declares,
\* individual 2 is a personne a charge, both live in one household.
EligInput(i1, i2) ==
    Input(<<i1, i2>>,
          <<[declarants |-> <<IdOf(1)>>, personnes_a_charge |-> <<IdOf(2)>>]>>,
          <<[personne_de_reference |-> IdOf(1), conjoint |-> None,
             enfants |-> <<IdOf(2)>>, autres |-> <<>>]>>,
          <<>>, SimulationYear)

RECURSIVE SeqsUpTo(_, _)
SeqsUpTo(S, n) ==
    IF n = 0 THEN {<<>>}
    ELSE LET shorter == SeqsUpTo(S, n - 1)
         IN  shorter \cup {Append(q, x) : q \in {r \in shorter : Len(r) = n - 1},
                                          x \in S}

Axis(name, count, index, min, max) ==
    [name |-> name, count |-> count, index |-> index, min |-> min, max |-> max]

GoodShapeAxes ==
    {Axis(name, count, index, mm[1], mm[2])
     : name \in {"sali", "loyer"}, count \in {1, 2}, index \in {0, 1, 2},
       mm \in {<<0, 1>>, <<1, 1>>, <<2, 1>>}}

BadShapeAxes ==
    {Axis("sali", 0, 0, 0, 1), Axis("inv", 2, 0, 0, 1), Axis("loyer", 2, 0 - 1, 1, 1)}

\* Two individuals in one fiscal unit; the household holds both, or only the
\* first.
AxesTestCases ==
    {[individus |-> BlankIndividus(2), foyers_fiscaux |-> DefaultFoyers(2),
      menages |-> DefaultMenages(c)] : c \in {1, 2}}

\* The record r with the field name set to v.
With(r, name, v) ==
    [k \in DOMAIN r \cup {name} |-> IF k = name THEN v ELSE r[k]]

\* Bounds of the swept axes.
MaxCount == 5
MaxMeshCount == 3

\* Two individuals in one fiscal unit and one household; the second individual
\* may have a sali, the fiscal unit a fon_reel_fisc and the household a loyer.
SweepTestCases ==
    {[individus |-> <<Individu(1, None, None, None, None),
                      With(Individu(2, None, None, None, None), "sali", sali)>>,
      foyers_fiscaux |-> <<With(DefaultFoyers(2)[1], "fon_reel_fisc", fon)>>,
      menages |-> <<With(DefaultMenages(2)[1], "loyer", loyer)>>]
     : sali \in {None, 7}, fon \in {None, 4}, loyer \in {None, 3}}

SweepIntervals == {<<0, 100>>, <<0, 1>>, <<0 - 3, 0>>, <<1, 2>>}

MeshIntervals == {<<0, 10>>, <<0, 20>>, <<0, 1>>}

MeshNames == {"sali", "loyer", "age"}

\* The axes of a sweep of several variables are on distinct variables; the
\* axis of an individual variable is the one of the second individual.
MeshAxes(names, counts, mms) ==
    [a \in 1..Len(names) |->
        Axis(names[a], counts[a], IF names[a] = "sali" THEN 1 ELSE 0,
             mms[a][1], mms[a][2])]

Urls ==
    {"http://host/legislation", "https://host/legislation",
     "ftp://host/legislation", "http://host/legislation#fragment"}

\* The axes of the inputs that name a legislation: none, one without error,
\* one with an error at max.
LegislationAxes ==
    {<<>>, <<Axis("sali", 2, 0, 0, 1)>>, <<Axis("sali", 2, 0, 1, 1)>>}

\* A fresh Scenario and the value it is about to validate.
InitWith(inp) ==
    /\ input = inp
    /\ pc = "new"
    /\ result = NoResult
    /\ test_case = NoTestCase
    /\ axes = <<>>
    /\ year = None
    /\ compact_legislation = <<>>
    /\ legislation_url = NoAttribute
    /\ simulation = NoSimulation
    /\ raised = "none"
    /\ returned = NothingReturned

\* Inputs that vary the fiscal units, and the input without individuals.
InitFoyers ==
    \/ InitWith(EmptyInput)
    \/ InitWith(Input(<<>>, DefaultFoyers(1), DefaultMenages(1), <<>>, SimulationYear))
    \/ \E n \in 1..MaxInd :
          \E a \in [1..n -> FoyOpts], extra \in FoyExtras(n),
             rev \in BOOLEAN, c \in {n - 1, n} :
              InitWith(Input(BlankIndividus(n), GenFoyers(n, a, extra, rev),
                             DefaultMenages(c), <<>>, SimulationYear))

\* Inputs that vary the households.
InitMenages ==
    \E n \in 1..MaxInd :
        \E a \in [1..n -> MenOpts], extra \in MenExtras(n) :
            /\ ScalarsOk(n, a, extra)
            /\ InitWith(Input(BlankIndividus(n), DefaultFoyers(n),
                              GenMenages(n, a, extra), <<>>, SimulationYear))

\* Inputs that vary the ages of one individual, the other taking few values.
InitElig ==
    \/ \E i1 \in AnyIndividu(1), i2 \in FewIndividus(2) : InitWith(EligInput(i1, i2))
    \/ \E i1 \in FewIndividus(1), i2 \in AnyIndividu(2) : InitWith(EligInput(i1, i2))

\* Inputs that vary the axes.
InitAxes ==
    \/ \E tc \in AxesTestCases, ax \in SeqsUpTo(GoodShapeAxes, MaxAxes) :
          InitWith([test_case |-> tc, axes |-> ax, year |-> SimulationYear])
    \/ \E tc \in AxesTestCases, a \in BadShapeAxes \cup {Axis("sali", 2, 2, 1, 1)},
          y \in {MinYear - 1, SimulationYear} :
          InitWith([test_case |-> tc, axes |-> <<a>>, year |-> y])

\* Inputs that sweep one axis, or several axes on distinct variables.
InitSweep ==
    \/ \E tc \in SweepTestCases, name \in {"sali", "loyer"}, count \in 1..MaxCount,
          index \in {0, 1}, mm \in SweepIntervals :
          InitWith([test_case |-> tc,
                    axes |-> <<Axis(name, count, index, mm[1], mm[2])>>,
                    year |-> SimulationYear])
    \/ \E tc \in SweepTestCases, k \in 2..MaxAxes :
          \E names \in {q \in [1..k -> MeshNames] :
                           \A i, j \in 1..k : q[i] = q[j] => i = j},
             counts \in [1..k -> 1..MaxMeshCount], mms \in [1..k -> MeshIntervals] :
              InitWith([test_case |-> tc, axes |-> MeshAxes(names, counts, mms),
                        year |-> SimulationYear])

\* Inputs that name a legislation, or none: n individuals in one fiscal unit,
\* all or all but the last in one household.
InitLegislation ==
    \E n \in 1..MaxInd, c \in 0..1, ax \in LegislationAxes,
       y \in {MinYear - 1, SimulationYear} :
        LET inp == Input(BlankIndividus(n), DefaultFoyers(n), DefaultMenages(n - c),
                         ax, y)
        IN  \/ InitWith(inp)
            \/ \E url \in Urls : InitWith(With(inp, "legislation_url", url))

\* Bound of the individuals of the Scenarios that are operated on.
MaxLifecycleInd == 2

\* The individual i without age, born 30 years before the year, or aged 20.
LifecycleIndividus(i) ==
    {Individu(i, None, None, None, None),
     Individu(i, SimulationYear - 30, None, None, None),
     Individu(i, None, 20, None, None)}

\* One fiscal unit and one household of the individuals 1..n; the second
\* individual declares with the first and is its conjoint, or is a personne
\* a charge and among autres.
InitLifecycle ==
    \E n \in 1..MaxLifecycleInd, couple \in BOOLEAN :
        \E individus \in [1..n -> UNION {LifecycleIndividus(i) : i \in 1..n}] :
            /\ \A i \in 1..n : individus[i] \in LifecycleIndividus(i)
            /\ IF couple /\ n >= 2
               THEN InitWith(Input(individus,
                        <<[declarants |-> <<IdOf(1), IdOf(2)>>,
                           personnes_a_charge |-> [k \in 1..(n - 2) |-> IdOf(k + 2)]]>>,
                        <<[personne_de_reference |-> IdOf(1), conjoint |-> IdOf(2),
                           enfants |-> [k \in 1..(n - 2) |-> IdOf(k + 2)],
                           autres |-> <<>>]>>,
                        <<>>, SimulationYear))
               ELSE InitWith(Input(individus, DefaultFoyers(n), DefaultMenages(n),
                                   <<>>, SimulationYear))

\* The members of a set of integers in ascending order.
Ascending(S) ==
    CHOOSE s \in [1..Cardinality(S) -> S] :
        \A i, j \in 1..Cardinality(S) : i < j => s[i] < s[j]

\* Individuals given as a list, each with an id among 0..MaxInd-1 or without
\* id, the i-th aged 20 + i; one fiscal unit and one household of the
\* individuals of some keys, the one of the lowest key declaring and being
\* personne de reference.
InitList ==
    \E n \in 1..MaxInd :
        \E ids \in [1..n -> {None} \cup 0..(MaxInd - 1)],
           keys \in (SUBSET (0..(MaxInd - 1))) \ {{}} :
            LET members == Ascending(keys)
            IN  InitWith(Input(
                    [i \in 1..n |-> [id |-> ids[i], birth |-> None, age |-> 20 + i,
                                     agem |-> None, inv |-> None]],
                    <<[declarants |-> <<members[1]>>,
                       personnes_a_charge |-> Tail(members)]>>,
                    <<[personne_de_reference |-> members[1], conjoint |-> None,
                       enfants |-> <<>>, autres |-> Tail(members)]>>,
                    <<>>, SimulationYear))

\* The values a validated Scenario is asked to validate next: those of the
\* legislation family.
SecondInputs ==
    UNION {{inp} \cup {With(inp, "legislation_url", url) : url \in Urls}
           : inp \in {Input(BlankIndividus(n), DefaultFoyers(n),
                            DefaultMenages(n - c), ax, y)
                      : n \in 1..MaxLifecycleInd, c \in 0..1,
                        ax \in LegislationAxes,
                        y \in {MinYear - 1, SimulationYear + 1}}}

\* A further call of json_or_python_to_attributes on a Scenario that has its
\* attributes.
ValidateAgain ==
    /\ pc = "valid"
    /\ \E inp \in SecondInputs :
          /\ input' = inp
          /\ Call(inp)
    /\ UNCHANGED <<simulation, returned>>

Next == Validate \/ NewSimulation

\* Next of a Scenario that validates one value after the other.
NextAttributes == Validate \/ ValidateAgain

\* Next with the operations on a validated Scenario.
NextLifecycle == Validate \/ NewSimulation \/ Suggest \/ ToJson \/ Revalidate

\* Scenarios whose fiscal units or households vary.
Spec == (InitFoyers \/ InitMenages) /\ [][Next]_vars

\* Scenarios whose individuals' ages vary.
SpecElig == InitElig /\ [][Next]_vars

\* Scenarios whose axes vary.
SpecAxes == InitAxes /\ [][Next]_vars

\* Scenarios that sweep axes.
SpecSweep == InitSweep /\ [][Next]_vars

\* Scenarios that name a legislation.
SpecLegislation == InitLegislation /\ [][Next]_vars

\* Scenarios that are simulated, completed and serialized, in any order.
SpecAttributes == InitLegislation /\ [][NextAttributes]_vars

\* The family of the individuals given as a list.
SpecList == InitList /\ [][Next]_vars

\* The lifecycle family.
SpecLifecycle == InitLifecycle /\ [][NextLifecycle]_vars

(***************************************************************************)
(* The claims.  They are stated on the input and on what the operations    *)
(* returned.                                                               *)
(***************************************************************************)

InputIds == Range(IndividusIds(input.test_case))

\* How many items of the list ids are id.
Occurrences(ids, id) == Cardinality({k \in 1..Len(ids) : ids[k] = id})

RECURSIVE Sum(_)
Sum(ns) == IF ns = <<>> THEN 0 ELSE Head(ns) + Sum(Tail(ns))

\* How many times the fiscal units of the input name id.
FoyRefCount(id) ==
    LET units == input.test_case.foyers_fiscaux
    IN  Sum([u \in 1..Len(units) |->
                Occurrences(units[u].declarants \o units[u].personnes_a_charge, id)])

\* How many times the households of the input name id.
MenRefCount(id) ==
    LET menages == input.test_case.menages
    IN  Sum([m \in 1..Len(menages) |->
                Occurrences(<<menages[m].personne_de_reference, menages[m].conjoint>>
                            \o menages[m].enfants \o menages[m].autres, id)])

\* The ids the fiscal units of the input name.
FoyReferenced ==
    LET units == input.test_case.foyers_fiscaux
    IN  UNION {Range(units[u].declarants) \cup Range(units[u].personnes_a_charge)
               : u \in 1..Len(units)}

\* The ids the households of the input name.
MenReferenced ==
    LET menages == input.test_case.menages
    IN  UNION {({menages[m].personne_de_reference, menages[m].conjoint} \ {None})
               \cup Range(menages[m].enfants) \cup Range(menages[m].autres)
               : m \in 1..Len(menages)}

Validated == pc # "new"

Accepted == pc = "valid"

\* The step of test-case validation that was evaluated last.
Stage2Evaluated == Validated /\ result.tc_stage >= 2

Stage3Evaluated == Validated /\ result.tc_stage = 3

Stage2Rejected ==
    pc = "rejected" /\ result.step = "test_case" /\ result.tc_stage = 2

\* C1 (referential closure): an accepted test case has every individual id
\* referenced by a fiscal unit and by a household; when the second step is
\* evaluated, an individual missing from a side makes it return an error at
\* individus[id] whose message names exactly the sides it is missing from, and
\* an individual referenced by both sides gets no such error.
C1_ReferentialClosure ==
    LET foy == FoyReferenced
        men == MenReferenced
    IN  /\ Accepted => \A id \in InputIds : id \in foy /\ id \in men
        /\ Stage2Evaluated =>
             \A id \in InputIds :
                LET here == {e \in result.errors : e.path = <<"individus", id>>}
                IN  CASE id \notin foy /\ id \notin men ->
                           /\ Stage2Rejected
                           /\ here = {Err(<<"individus", id>>,
                                "Individual is missing from foyers_fiscaux & menages")}
                      [] id \notin foy /\ id \in men ->
                           /\ Stage2Rejected
                           /\ here = {Err(<<"individus", id>>,
                                "Individual is missing from foyers_fiscaux")}
                      [] id \in foy /\ id \notin men ->
                           /\ Stage2Rejected
                           /\ here = {Err(<<"individus", id>>,
                                "Individual is missing from menages")}
                      [] OTHER -> here = {}

\* C1 witness: a rejected test case with an individual no side references and
\* another one only the households reference.
C1_Witness ==
    /\ Stage2Rejected
    /\ \E id \in InputIds : id \notin FoyReferenced /\ id \notin MenReferenced
    /\ \E id \in InputIds : id \notin FoyReferenced /\ id \in MenReferenced

\* C2 (claim once): when the second step is evaluated, the list of each side
\* is left holding exactly the ids that side never references; a reference to
\* an unknown id, or a second reference to an id from the same side, makes the
\* step return an error under that side, and the test case is rejected.
C2_ClaimOnce ==
    Stage2Evaluated =>
        LET c == Stage2Claims(input.test_case)
            foy == FoyReferenced
            men == MenReferenced
            foy_bad == \E id \in foy : id \notin InputIds \/ FoyRefCount(id) >= 2
            men_bad == \E id \in men : id \notin InputIds \/ MenRefCount(id) >= 2
        IN  /\ Range(c.foyers_fiscaux.pool) = InputIds \ foy
            /\ Range(c.menages.pool) = InputIds \ men
            /\ foy_bad => /\ Stage2Rejected
                          /\ \E e \in result.errors : e.path[1] = "foyers_fiscaux"
            /\ men_bad => /\ Stage2Rejected
                          /\ \E e \in result.errors : e.path[1] = "menages"
            /\ Accepted => ~foy_bad /\ ~men_bad

\* C2 witness: a rejected test case where an individual both declares and is
\* a personne a charge.
C2_Witness ==
    /\ Stage2Rejected
    /\ \E id \in InputIds :
          /\ \E u \in 1..Len(input.test_case.foyers_fiscaux) :
                id \in Range(input.test_case.foyers_fiscaux[u].declarants)
          /\ \E u \in 1..Len(input.test_case.foyers_fiscaux) :
                id \in Range(input.test_case.foyers_fiscaux[u].personnes_a_charge)

Simulated == simulation # NoSimulation

\* The position of the individual id among the individuals of the input.
PositionOf(id) ==
    (CHOOSE k \in 1..Len(input.test_case.individus) :
        input.test_case.individus[k].id = id) - 1

Steps == 0..(simulation.steps_count - 1)

SlotOf(s, id) == s * Len(input.test_case.individus) + PositionOf(id)

\* C3 (fiscal-unit role coding): after new_simulation, in every step, quifoy
\* holds 0 at the first declarant, 1 at the second declarant and 2 + k at the
\* k-th personne a charge of every fiscal unit.
C3_QuifoyRoleCoding ==
    Simulated =>
        \A u \in 1..Len(input.test_case.foyers_fiscaux) : \A s \in Steps :
            LET foyer_fiscal == input.test_case.foyers_fiscaux[u]
            IN  /\ simulation.quifoy[SlotOf(s, foyer_fiscal.declarants[1])] = 0
                /\ Len(foyer_fiscal.declarants) = 2 =>
                      simulation.quifoy[SlotOf(s, foyer_fiscal.declarants[2])] = 1
                /\ \A k \in 1..Len(foyer_fiscal.personnes_a_charge) :
                      simulation.quifoy[SlotOf(s, foyer_fiscal.personnes_a_charge[k])]
                          = 2 + (k - 1)

\* C4 (household role coding): after new_simulation, in every step, quimen
\* holds 0 at the personne de reference, 1 at the conjoint and 2 + k at the
\* k-th member of enfants followed by autres of every household.
C4_QuimenRoleCoding ==
    Simulated =>
        \A m \in 1..Len(input.test_case.menages) : \A s \in Steps :
            LET menage == input.test_case.menages[m]
                chained == menage.enfants \o menage.autres
            IN  /\ simulation.quimen[SlotOf(s, menage.personne_de_reference)] = 0
                /\ menage.conjoint # None =>
                      simulation.quimen[SlotOf(s, menage.conjoint)] = 1
                /\ \A k \in 1..Len(chained) :
                      simulation.quimen[SlotOf(s, chained[k])] = 2 + (k - 1)

\* C8 (declarant count): every fiscal unit of an accepted test case has one
\* or two declarants; when the third step is evaluated, a fiscal unit with no
\* declarant or more than two gets an error at its declarants field.
C8_DeclarantCount ==
    LET units == input.test_case.foyers_fiscaux
    IN  /\ Accepted => \A u \in 1..Len(units) : Len(units[u].declarants) \in {1, 2}
        /\ Stage3Evaluated =>
             \A u \in 1..Len(units) :
                Len(units[u].declarants) \notin {1, 2} =>
                    /\ pc = "rejected"
                    /\ <<"foyers_fiscaux", u - 1, "declarants">> \in Paths(result.errors)

\* C8 witness: the third step evaluated on a fiscal unit of three declarants.
C8_Witness ==
    /\ Stage3Evaluated
    /\ \E u \in 1..Len(input.test_case.foyers_fiscaux) :
          Len(input.test_case.foyers_fiscaux[u].declarants) >= 3

Individus == input.test_case.individus

Units == input.test_case.foyers_fiscaux

DeclarantPath(u, k) == <<"foyers_fiscaux", u - 1, "declarants", k - 1>>

PersonneAChargePath(u, k) == <<"foyers_fiscaux", u - 1, "personnes_a_charge", k - 1>>

\* The individual of the input whose key is id.
InputIndividu(id) == CHOOSE r \in Range(Individus) : r.id = id

IsBlank(r) == r.birth = None /\ r.age = None /\ r.agem = None

\* C5 (declarant age boundary): a fiscal unit whose sole declarant has a birth
\* date with year - birth.year <= 17 is rejected, with an error at that
\* declarant when the third step is evaluated; with year - birth.year = 18
\* and no other age given, the declarant gets no error, and the test case is
\* accepted when no other individual carries an age.
C5_DeclarantAgeBoundary ==
    Validated =>
        \A u \in 1..Len(Units) :
            Len(Units[u].declarants) = 1 =>
                LET d == InputIndividu(Units[u].declarants[1])
                    others == {r \in Range(Individus) : r.id # d.id}
                IN  d.birth # None =>
                      /\ input.year - d.birth <= 17 =>
                            /\ pc = "rejected"
                            /\ Stage3Evaluated =>
                                  DeclarantPath(u, 1) \in Paths(result.errors)
                      /\ (input.year - d.birth = 18 /\ d.age = None /\ d.agem = None) =>
                            /\ Stage3Evaluated =>
                                  DeclarantPath(u, 1) \notin Paths(result.errors)
                            /\ (\A r \in others : IsBlank(r)) => Accepted

\* C5 witness: an accepted test case whose sole declarant has only a birth
\* date, with year - birth.year = 18.
C5_Witness ==
    /\ Accepted
    /\ Len(Units) = 1 /\ Len(Units[1].declarants) = 1
    /\ LET d == InputIndividu(Units[1].declarants[1])
       IN  d.birth # None /\ input.year - d.birth = 18 /\ d.age = None /\ d.agem = None

\* The age representations of r that are present and show at least 18 years.
Shows18(r) ==
    {"birth" : x \in {y \in {r.birth} : y # None /\ input.year - y >= 18}}
    \cup {"age" : x \in {y \in {r.age} : y # None /\ y >= 18}}
    \cup {"agem" : x \in {y \in {r.agem} : y # None /\ y >= 216}}

Present(r) ==
    {"birth" : x \in {y \in {r.birth} : y # None}}
    \cup {"age" : x \in {y \in {r.age} : y # None}}
    \cup {"agem" : x \in {y \in {r.agem} : y # None}}

DeclarantsCounted(u) == Len(Units[u].declarants) \in {1, 2}

\* C6 as stated (declarant age representations): when the third step is
\* evaluated, a declarant with at least one present age representation
\* showing 18 years or more, or with none present, gets no error.
C6_AnyRepresentation ==
    Stage3Evaluated =>
        \A u \in 1..Len(Units) : \A k \in 1..Len(Units[u].declarants) :
            LET d == InputIndividu(Units[u].declarants[k])
            IN  (Shows18(d) # {} \/ Present(d) = {}) =>
                    DeclarantPath(u, k) \notin Paths(result.errors)

\* C6 amended: when the third step is evaluated on a fiscal unit of one or
\* two declarants, a declarant gets no error exactly when every age
\* representation present on it shows 18 years or more (none present passes).
C6_EveryRepresentation ==
    Stage3Evaluated =>
        \A u \in 1..Len(Units) : \A k \in 1..Len(Units[u].declarants) :
            LET d == InputIndividu(Units[u].declarants[k])
            IN  DeclarantsCounted(u) =>
                    (DeclarantPath(u, k) \notin Paths(result.errors)
                        <=> Shows18(d) = Present(d))

\* C6 witness: a declarant whose birth date shows 18 years and whose age does
\* not gets an error.
C6_Witness ==
    /\ Stage3Evaluated
    /\ \E u \in 1..Len(Units) : \E k \in 1..Len(Units[u].declarants) :
          LET d == InputIndividu(Units[u].declarants[k])
          IN  /\ "birth" \in Shows18(d)
              /\ "age" \in Present(d) \ Shows18(d)
              /\ DeclarantPath(u, k) \in Paths(result.errors)

\* The age representations of r that are present and show at most 25 years.
Shows25(r) ==
    {"birth" : x \in {y \in {r.birth} : y # None /\ input.year - y <= 25}}
    \cup {"age" : x \in {y \in {r.age} : y # None /\ y <= 25}}
    \cup {"agem" : x \in {y \in {r.agem} : y # None /\ y <= 300}}

C9_NoBirthAfterYear ==
    /\ Accepted =>
          \A r \in Range(Individus) : r.birth # None => input.year - r.birth >= 0
    /\ Stage3Evaluated =>
          \A r \in Range(Individus) :
             /\ (r.birth # None /\ r.birth > input.year) =>
                    /\ pc = "rejected"
                    /\ <<"individus", r.id, "birth">> \in Paths(result.errors)
             /\ ~(r.birth # None /\ r.birth > input.year) =>
                    <<"individus", r.id, "birth">> \notin Paths(result.errors)

\* C9 witness: a personne a charge with the inv flag born after the year gets
\* the error, in a test case with no other error.
C9_Witness ==
    /\ Stage3Evaluated
    /\ \E r \in Range(Individus) :
          /\ r.birth # None /\ r.birth > input.year /\ r.inv = 1
          /\ r.id \in Range(Units[1].personnes_a_charge)
          /\ Paths(result.errors) = {<<"individus", r.id, "birth">>}

\* The number of instances, in the input, of the entity kind of the variable.
InstancesOf(name) ==
    IF name = "loyer" THEN Len(input.test_case.menages)
    ELSE Len(input.test_case.individus)

\* Test-case validation was evaluated and returned no error.
TestCaseValidated == Validated /\ result.step \in {"axes", "ok"}

AxisMaxError(i) == input.axes[i].min >= input.axes[i].max

AxisIndexError(i) == input.axes[i].index >= InstancesOf(input.axes[i].name)

\* C10 (axis cross-field checks): when test-case validation returned no
\* error, every axis with min >= max has an error at axes[i].max and every
\* axis with index >= the number of instances has one at axes[i].index, no
\* other axis has them, and the Scenario is accepted exactly when no axis has
\* either; when test-case validation returned an error, nothing is reported
\* under axes.
C10_AxisCrossChecks ==
    /\ TestCaseValidated =>
          /\ \A i \in 1..Len(input.axes) :
                /\ AxisMaxError(i) <=> <<"axes", i - 1, "max">> \in Paths(result.errors)
                /\ AxisIndexError(i) <=> <<"axes", i - 1, "index">> \in Paths(result.errors)
          /\ Accepted <=> \A i \in 1..Len(input.axes) :
                             ~AxisMaxError(i) /\ ~AxisIndexError(i)
    /\ (Validated /\ result.step = "test_case") =>
          \A e \in result.errors : e.path[1] # "axes"

\* C10 witness: two axes, the first with only the error at max, the second
\* with only the error at index, both reported.
C10_Witness ==
    /\ TestCaseValidated
    /\ Len(input.axes) = 2
    /\ AxisMaxError(1) /\ ~AxisIndexError(1)
    /\ AxisIndexError(2) /\ ~AxisMaxError(2)
    /\ Paths(result.errors) = {<<"axes", 0, "max">>, <<"axes", 1, "index">>}

\* The product of the counts of the first k axes of the input.
RECURSIVE CountsUpTo(_)
CountsUpTo(k) == IF k = 0 THEN 1 ELSE CountsUpTo(k - 1) * input.axes[k].count

LinkageArrays == {"idfoy", "quifoy", "idmen", "quimen", "noi"}

\* C11 (replication sizes): after new_simulation, steps_count is the product
\* of the counts of all axes (1 without axes), the step_size of each entity
\* kind is the number of its instances in the test case, its count is
\* steps_count times step_size, and the four linkage arrays and noi have the
\* length of the count of the individuals.
C11_ReplicationSizes ==
    Simulated =>
        /\ simulation.steps_count = CountsUpTo(Len(input.axes))
        /\ simulation.individus.step_size = Len(input.test_case.individus)
        /\ simulation.foyers_fiscaux.step_size = Len(input.test_case.foyers_fiscaux)
        /\ simulation.menages.step_size = Len(input.test_case.menages)
        /\ \A kind \in {"individus", "foyers_fiscaux", "menages"} :
              simulation[kind].count
                  = simulation.steps_count * simulation[kind].step_size
        /\ \A name \in LinkageArrays :
              DOMAIN simulation[name] = 0..(simulation.individus.count - 1)

\* C11 witness: a simulation of two axes of count 2, four steps of two
\* individuals.
C11_Witness ==
    /\ Simulated
    /\ Len(input.axes) = 2 /\ input.axes[1].count = 2 /\ input.axes[2].count = 2
    /\ simulation.steps_count = 4
    /\ simulation.individus.count = 8

\* The s-th (from 0) of the evenly spaced values of the closed interval of
\* the axis, as a fraction <<n, d>> with d > 0.
GridValue(axis, s) ==
    IF axis.count = 1 THEN <<axis.min, 1>>
    ELSE <<axis.min * (axis.count - 1) + s * (axis.max - axis.min), axis.count - 1>>

\* The cell of the array of a column as a fraction.
ValueOf(name, cell) == IF column_dtype(name) = "float32" THEN cell ELSE <<cell, 1>>

SameFraction(p, q) == p[1] * q[2] = q[1] * p[2]

\* The integer c is the fraction q with its fractional part dropped.
IsTruncationOf(c, q) ==
    IF q[1] >= 0 THEN c * q[2] <= q[1] /\ q[1] < (c + 1) * q[2]
    ELSE (c - 1) * q[2] < q[1] /\ q[1] <= c * q[2]

\* The cell the array of the axis variable holds for the step s.
AxisCell(a, s) ==
    simulation.holders[input.axes[a].name]
        [s * InstancesOf(input.axes[a].name) + input.axes[a].index]

SingleAxis == Simulated /\ Len(input.axes) = 1

\* C12 as stated (single-axis sweep): with one axis, the array of the axis
\* variable holds at position s * step_size + index the s-th of count evenly
\* spaced values of [min, max], for every step s.
C12_EvenlySpaced ==
    SingleAxis =>
        \A s \in 0..(input.axes[1].count - 1) :
            SameFraction(ValueOf(input.axes[1].name, AxisCell(1, s)),
                         GridValue(input.axes[1], s))

\* C12 amended: with one axis, the array of the axis variable holds at
\* position s * step_size + index the s-th of count evenly spaced values of
\* [min, max] converted to the type of the variable: the value itself for a
\* floating-point variable, the value with its fractional part dropped for
\* an integer variable; so the first value is min, the last one max when
\* count > 1, and for count=5, min=0, max=100 the values are 0, 25, 50, 75, 100.
C12_ConvertedGrid ==
    SingleAxis =>
        LET axis == input.axes[1]
            integer == column_dtype(axis.name) \in {"int16", "int32"}
        IN  /\ \A s \in 0..(axis.count - 1) :
                  IF integer
                  THEN IsTruncationOf(AxisCell(1, s), GridValue(axis, s))
                  ELSE SameFraction(AxisCell(1, s), GridValue(axis, s))
            /\ SameFraction(ValueOf(axis.name, AxisCell(1, 0)), <<axis.min, 1>>)
            /\ axis.count > 1 =>
                  SameFraction(ValueOf(axis.name, AxisCell(1, axis.count - 1)),
                               <<axis.max, 1>>)
            /\ (axis.count = 5 /\ axis.min = 0 /\ axis.max = 100) =>
                  \A s \in 0..4 :
                      ValueOf(axis.name, AxisCell(1, s)) = <<25 * s, 1>>

\* C12 witness: an integer variable swept over [0, 1] in three steps holds
\* 0, 0, 1 at the positions of the second individual.
C12_Witness ==
    /\ SingleAxis
    /\ input.axes[1] = Axis("sali", 3, 1, 0, 1)
    /\ simulation.holders["sali"][1] = 0
    /\ simulation.holders["sali"][3] = 0
    /\ simulation.holders["sali"][5] = 1

MultiAxis ==
    /\ Simulated
    /\ Len(input.axes) >= 2
    /\ \A a, b \in 1..Len(input.axes) :
          input.axes[a].name = input.axes[b].name => a = b

\* The tuple of the values the step s reads at the positions of the axes.
AxesTuple(s) ==
    [a \in 1..Len(input.axes) |-> ValueOf(input.axes[a].name, AxisCell(a, s))]

\* The tuples of indices into the grids of the axes.
GridIndices ==
    {f \in [1..Len(input.axes) -> 0..(MaxMeshCount - 1)] :
        \A a \in 1..Len(input.axes) : f[a] < input.axes[a].count}

IsGridTuple(t, f) ==
    \A a \in 1..Len(input.axes) : SameFraction(t[a], GridValue(input.axes[a], f[a]))

\* The axis at the place i of the shape of the meshes: the first two axes
\* change places.
AxisAtPlace(i) == IF i = 1 THEN 2 ELSE IF i = 2 THEN 1 ELSE i

\* The digit at place, among the places 1..i, of p written with one digit for
\* every place, the last place being the units and the digit of a place
\* running over the count of its axis.
RECURSIVE Digit(_, _, _)
Digit(p, i, place) ==
    IF i = place THEN p % input.axes[AxisAtPlace(i)].count
    ELSE Digit(p \div input.axes[AxisAtPlace(i)].count, i - 1, place)

\* The index into the grid of axis a that the step p receives.
StepCoordinate(a, p) == Digit(p, Len(input.axes), AxisAtPlace(a))

\* The grid of the axis holds only values its variable can hold.
GridFitsVariable(a) ==
    \/ column_dtype(input.axes[a].name) = "float32"
    \/ input.axes[a].count = 1
    \/ (input.axes[a].max - input.axes[a].min) % (input.axes[a].count - 1) = 0

\* C13 as stated (multi-axis independence): with two or more axes on distinct
\* variables, the tuples of values the steps read at the axis positions are
\* pairwise distinct and are exactly the members of the cartesian product of
\* the evenly spaced grids of the axes.
C13_DistinctTuples ==
    MultiAxis =>
        /\ \A s, t \in Steps : AxesTuple(s) = AxesTuple(t) => s = t
        /\ \A s \in Steps : \E f \in GridIndices : IsGridTuple(AxesTuple(s), f)
        /\ \A f \in GridIndices : \E s \in Steps : IsGridTuple(AxesTuple(s), f)

\* C13 amended: with two or more axes on distinct variables, every step
\* receives one tuple of grid indices, the tuples of the steps are pairwise
\* distinct and are exactly the members of the cartesian product of the index
\* ranges, and the step reads at the position of every axis the grid value of
\* its index converted to the type of the variable (fractional part dropped
\* for an integer variable); the tuples of values read are pairwise distinct
\* when every grid holds only values its variable can hold.
C13_ConvertedProduct ==
    MultiAxis =>
        LET k == Len(input.axes)
            Coordinates(s) == [a \in 1..k |-> StepCoordinate(a, s)]
        IN  /\ \A s \in Steps : Coordinates(s) \in GridIndices
            /\ \A s, t \in Steps : Coordinates(s) = Coordinates(t) => s = t
            /\ \A f \in GridIndices : \E s \in Steps : Coordinates(s) = f
            /\ \A s \in Steps : \A a \in 1..k :
                  LET q == GridValue(input.axes[a], StepCoordinate(a, s))
                  IN  IF column_dtype(input.axes[a].name) = "float32"
                      THEN SameFraction(AxisCell(a, s), q)
                      ELSE IsTruncationOf(AxisCell(a, s), q)
            /\ (\A a \in 1..k : GridFitsVariable(a)) =>
                  \A s, t \in Steps : AxesTuple(s) = AxesTuple(t) => s = t

\* C13 witness: A(count=2, min=0, max=10) and B(count=3, min=0, max=20), the
\* six steps read the six pairs of the grid.
C13_Witness ==
    /\ MultiAxis
    /\ Len(input.axes) = 2
    /\ input.axes[1] = Axis("loyer", 2, 0, 0, 10)
    /\ input.axes[2] = Axis("sali", 3, 1, 0, 20)
    /\ {AxesTuple(s) : s \in Steps}
           = {<<<<x, 1>>, <<y, 1>>>> : x \in {0, 10}, y \in {0, 10, 20}}

\* The lookup of the legislation was attempted.
LookedUp == Validated /\ result.lookup # <<>>

\* The legislation could not be had: the entry of the cache is not a
\* legislation, or the cache gave nothing and the request failed or did not
\* return a legislation.
LookupFailed ==
    \/ result.env.cache = "not_object"
    \/ /\ result.env.cache \in {"absent", "not_json"}
       /\ result.env.fetch # "legislation"

\* C17 (legislation failure is not fatal): the lookup is attempted only when
\* the test case and the axes validated without error; when it fails,
\* validation raises nothing and returns an error whose only key is
\* legislation_url.
C17_LegislationFailureNotFatal ==
    /\ LookedUp =>
          /\ HasUrl(input)
          /\ result.tc_stage = 3
          /\ \A i \in 1..Len(input.axes) : ~AxisMaxError(i) /\ ~AxisIndexError(i)
    /\ (LookedUp /\ LookupFailed) =>
          /\ pc = "rejected"
          /\ raised = "none"
          /\ Paths(result.errors) = {<<"legislation_url">>}

\* The last operation was a suggest that returned.
Suggested == returned.op = "suggest" /\ returned.raises = "none"

SuggestionPath(id) == <<"test_case", "individus", id, "birth">>

\* The individual id is a declarant of a fiscal unit of the test case tc.
DeclaresIn(tc, id) ==
    \E u \in 1..Len(tc.foyers_fiscaux) : id \in Range(tc.foyers_fiscaux[u].declarants)

RoundTripped == returned.op = "json_to_instance"

\* C14 (round trip): the validation of what to_json returned for a validated
\* Scenario succeeds and gives a test case equal to the one of the Scenario:
\* the same individuals, fiscal units with their declarants and personnes a
\* charge, households with their personne de reference, conjoint, enfants
\* and autres.
C14_RoundTrip ==
    RoundTripped =>
        /\ returned.raises = "none"
        /\ returned.value.step = "ok"
        /\ returned.value.test_case = returned.of

\* C19 (array construction does not mutate the Scenario): once new_simulation
\* has run, the fiscal units and the households of self.test_case still hold
\* what validation gave them, the individuals are the same ones, self.axes
\* and self.year are unchanged, and no later new_simulation or suggest has
\* raised KeyError.
C19_NoMutation ==
    Simulated =>
        /\ test_case.foyers_fiscaux = result.test_case.foyers_fiscaux
        /\ test_case.menages = result.test_case.menages
        /\ IndividusIds(test_case) = IndividusIds(result.test_case)
        /\ axes = input.axes
        /\ year = input.year
        /\ raised # "KeyError"

\* The fiscal unit (from 0) and the household (from 0) the input puts the
\* individual id in.
UnitOf(id) ==
    (CHOOSE u \in 1..Len(Units) :
        id \in Range(Units[u].declarants) \cup Range(Units[u].personnes_a_charge)) - 1

MenageOf(id) ==
    (CHOOSE m \in 1..Len(input.test_case.menages) :
        LET menage == input.test_case.menages[m]
        IN  id \in {menage.personne_de_reference, menage.conjoint}
                   \cup Range(menage.enfants) \cup Range(menage.autres)) - 1

\* C20 (linking indices): after new_simulation, for every step s and every
\* individual at position i, in the fiscal unit at position f and the
\* household at position m, idfoy[s * individus_step_size + i] is
\* s * foyers_fiscaux_step_size + f and idmen[s * individus_step_size + i] is
\* s * menages_step_size + m.
C20_LinkingIndices ==
    Simulated =>
        \A s \in Steps : \A id \in InputIds :
            /\ simulation.idfoy[SlotOf(s, id)]
                   = s * simulation.foyers_fiscaux.step_size + UnitOf(id)
            /\ simulation.idmen[SlotOf(s, id)]
                   = s * simulation.menages.step_size + MenageOf(id)

\* The references the fiscal units of the input make, and the households.
FoyRefTotal ==
    Sum([u \in 1..Len(Units) |->
            Len(Units[u].declarants) + Len(Units[u].personnes_a_charge)])

MenRefTotal ==
    LET menages == input.test_case.menages
    IN  Sum([m \in 1..Len(menages) |->
                Len(menages[m].enfants) + Len(menages[m].autres)
                + Cardinality({role \in {"personne_de_reference", "conjoint"} :
                                  menages[m][role] # None})])

\* The input has a violation of the first, the second, the third step.
ShapeViolation == Len(Individus) = 0

ReferenceViolation ==
    \/ FoyRefTotal # Cardinality(FoyReferenced \cap InputIds)
    \/ MenRefTotal # Cardinality(MenReferenced \cap InputIds)

UnclaimedViolation == \E id \in InputIds : id \notin FoyReferenced \cap MenReferenced

UnitsWithBadCount == {u \in 1..Len(Units) : Len(Units[u].declarants) \notin {1, 2}}

MenagesWithoutReference ==
    {m \in 1..Len(input.test_case.menages) :
        input.test_case.menages[m].personne_de_reference = None}

ErrorsUnder(group) == {e \in result.errors : e.path[1] = group}

Stage2Messages ==
    {"Value must belong to the pool",
     "Individual is missing from foyers_fiscaux & menages",
     "Individual is missing from foyers_fiscaux",
     "Individual is missing from menages"}

ListIdentity(i) == IF Individus[i].id = None THEN i - 1 ELSE Individus[i].id

\* C18 (list-form identities): the normalized map of a list of individuals
\* holds one entry per record of the list, under the explicit id of the record
\* or else its 0-based position, and these identities are pairwise distinct.
C18_ListIdentities ==
    (Validated /\ result.step # "shape") =>
        LET map == result.test_case.individus
        IN  /\ Len(map) = Len(Individus)
            /\ \A i \in 1..Len(Individus) :
                  \E k \in 1..Len(map) :
                      /\ map[k].id = ListIdentity(i)
                      /\ map[k].age = Individus[i].age
            /\ \A i, j \in 1..Len(Individus) :
                  i # j => ListIdentity(i) # ListIdentity(j)

\* The instances of the input of the entity kind of the column.
InputRecords(name) == input.test_case[key_plural(column_entity(name))]

\* One instance of the input at least has a value for the column.
Observed(name) ==
    \E k \in 1..Len(InputRecords(name)) : Get(InputRecords(name)[k], name) # None

\* C21 (variable arrays): after new_simulation, before the expansion of the
\* axes, a variable of the registry has an array if and only if one instance
\* of its entity kind at least has a value for it; the array has steps_count
\* times step_size slots, and for every step s and every instance position i
\* the slot s * step_size + i holds the value of instance i, or the default
\* of the registry when the instance has none.
C21_VariableArrays ==
    Simulated =>
        \A name \in ColumnNames :
            LET records == InputRecords(name)
                step_size == Len(records)
            IN  /\ (name \in DOMAIN simulation.variables) <=> Observed(name)
                /\ Observed(name) =>
                      /\ DOMAIN simulation.variables[name]
                             = 0..(simulation.steps_count * step_size - 1)
                      /\ \A s \in Steps : \A i \in 0..(step_size - 1) :
                            LET cell == Get(records[i + 1], name)
                            IN  ValueOf(name,
                                    simulation.variables[name][s * step_size + i])
                                = <<IF cell # None THEN cell
                                    ELSE column_default(name), 1>>

\* C21 witness: three steps of two individuals of whom the second alone has a
\* sali: the array holds the default and the sali in every step, and age,
\* which no individual has, has no array.
C21_Witness ==
    /\ Simulated
    /\ simulation.steps_count = 3
    /\ "sali" \in DOMAIN simulation.variables
    /\ \A s \in Steps : /\ simulation.variables["sali"][2 * s] = 0
                        /\ simulation.variables["sali"][2 * s + 1] = 7
    /\ "age" \notin DOMAIN simulation.variables
    /\ "fon_reel_fisc" \in DOMAIN simulation.variables
    /\ "loyer" \notin DOMAIN simulation.variables

\* The axes of the input on the variable, and the positions they scatter to.
AxesOn(name) == {a \in 1..Len(input.axes) : input.axes[a].name = name}

ScatterPositions(name) ==
    {s * Len(InputRecords(name)) + input.axes[a].index :
        s \in Steps, a \in AxesOn(name)}

\* C22 (axis scatter frame): after new_simulation, a variable no axis names
\* has the array it had before the expansion, or none; the variable of an
\* axis has an array of the full length of its entity kind, which outside the
\* positions s * step_size + index of its axes holds what the array held
\* before the expansion, or the default of the registry when there was none.
C22_ScatterFrame ==
    Simulated =>
        /\ DOMAIN simulation.holders \subseteq ColumnNames
        /\ \A name \in ColumnNames :
              IF AxesOn(name) = {}
              THEN /\ (name \in DOMAIN simulation.holders)
                          <=> (name \in DOMAIN simulation.variables)
                   /\ name \in DOMAIN simulation.holders =>
                          simulation.holders[name] = simulation.variables[name]
              ELSE /\ name \in DOMAIN simulation.holders
                   /\ DOMAIN simulation.holders[name]
                          = 0..(simulation.steps_count * Len(InputRecords(name)) - 1)
                   /\ \A i \in DOMAIN simulation.holders[name] :
                          i \notin ScatterPositions(name) =>
                              IF name \in DOMAIN simulation.variables
                              THEN simulation.holders[name][i]
                                       = simulation.variables[name][i]
                              ELSE ValueOf(name, simulation.holders[name][i])
                                       = <<column_default(name), 1>>

\* C22 witness: two axes, on the sali of the second individual, which had an
\* array, and on loyer, which had none: the sali of the first individual
\* keeps the default in every step while the one of the second changed, loyer
\* has an array, and fon_reel_fisc has the array it had.
C22_Witness ==
    /\ Simulated
    /\ Len(input.axes) = 2
    /\ input.axes[1].name = "sali" /\ input.axes[1].index = 1
    /\ input.axes[2].name = "loyer"
    /\ simulation.steps_count = 4
    /\ "sali" \in DOMAIN simulation.variables
    /\ "loyer" \notin DOMAIN simulation.variables
    /\ "loyer" \in DOMAIN simulation.holders
    /\ \A s \in Steps : simulation.holders["sali"][2 * s] = 0
    /\ \E s \in Steps : simulation.holders["sali"][2 * s + 1] # 7
    /\ "fon_reel_fisc" \in DOMAIN simulation.variables
    /\ simulation.holders["fon_reel_fisc"] = simulation.variables["fon_reel_fisc"]

\* The attributes json_or_python_to_attributes assigns.
attributes == <<axes, compact_legislation, legislation_url, test_case, year>>

\* C23 (no partial initialization): a call of json_or_python_to_attributes
\* that returns an error, at whatever step, leaves axes, compact_legislation,
\* legislation_url, test_case and year as they were before the call; a call
\* that changes one of them returns (self, None) and has assigned all five
\* from the validated value.
C23_NoPartialInitialization ==
    [][/\ (result'.raises = "none" /\ result'.errors # {}) =>
              UNCHANGED attributes
       /\ attributes' # attributes =>
              /\ result'.raises = "none" /\ result'.errors = {}
              /\ axes' = input'.axes
              /\ year' = input'.year
              /\ test_case' = result'.test_case
              /\ legislation_url' = (IF HasUrl(input') THEN <<input'.legislation_url>>
                                     ELSE <<>>)
              /\ (compact_legislation' = <<>>) <=> ~HasUrl(input')]_vars

\* C23 witness: a Scenario validated for the year of the simulations with a
\* legislation is asked to validate a value of another year whose legislation
\* cannot be fetched: the call returns the error of the lookup and the
\* Scenario has the attributes of the first value.
C23_Witness ==
    /\ pc = "rejected"
    /\ result.step = "legislation"
    /\ input.year = SimulationYear + 1
    /\ year = SimulationYear
    /\ legislation_url = <<"https://host/legislation">>
    /\ compact_legislation # <<>>
    /\ Len(axes) = 1
    /\ input.axes = <<>>
    /\ Len(test_case.individus) # Len(input.test_case.individus)

\* The roles a fiscal unit and a household of the input need: two for the
\* declarants, resp. the personne de reference and the conjoint, and one for
\* each dependent, resp. each child or other member.
UnitRoles(u) == 2 + Len(Units[u].personnes_a_charge)

MenageRoles(m) ==
    2 + Len(input.test_case.menages[m].enfants)
      + Len(input.test_case.menages[m].autres)

\* The slots of quifoy and of quimen the loops of new_simulation write.
QuifoyWritten ==
    {SlotOf(s, id) : s \in Steps,
                     id \in UNION {{Units[u].declarants[1]}
                                   \cup Range(Units[u].personnes_a_charge)
                                   : u \in 1..Len(Units)}}

QuimenWritten ==
    {SlotOf(s, id) : s \in Steps,
                     id \in UNION {{input.test_case.menages[m].personne_de_reference}
                                   \cup Range(input.test_case.menages[m].enfants)
                                   \cup Range(input.test_case.menages[m].autres)
                                   : m \in 1..Len(input.test_case.menages)}}

\* C24 (role-count bound): after new_simulation, roles_count of the fiscal
\* units is the largest 2 + number of personnes a charge of a fiscal unit,
\* roles_count of the households the largest 2 + number of enfants and autres
\* of a household, and every role written into quifoy, resp. quimen, is at
\* least 0 and less than that roles_count.
C24_RoleCountBound ==
    Simulated =>
        /\ \E u \in 1..Len(Units) :
              simulation.foyers_fiscaux.roles_count = UnitRoles(u)
        /\ \A u \in 1..Len(Units) :
              UnitRoles(u) <= simulation.foyers_fiscaux.roles_count
        /\ \E m \in 1..Len(input.test_case.menages) :
              simulation.menages.roles_count = MenageRoles(m)
        /\ \A m \in 1..Len(input.test_case.menages) :
              MenageRoles(m) <= simulation.menages.roles_count
        /\ \A i \in QuifoyWritten :
              simulation.quifoy[i] \in 0..(simulation.foyers_fiscaux.roles_count - 1)
        /\ \A i \in QuimenWritten :
              simulation.quimen[i] \in 0..(simulation.menages.roles_count - 1)

\* C24 witness: two fiscal units, the first with one personne a charge and
\* the second with none, in one household of three: roles_count is 3 for the
\* fiscal units and 4 for the households, and the personne a charge has the
\* role 2.
C24_Witness ==
    /\ Simulated
    /\ Len(Units) = 2
    /\ Len(Units[1].personnes_a_charge) = 1
    /\ Len(Units[2].personnes_a_charge) = 0
    /\ simulation.foyers_fiscaux.roles_count = 3
    /\ simulation.menages.roles_count = 4
    /\ simulation.quifoy[SlotOf(0, Units[1].personnes_a_charge[1])] = 2

====
